---- MODULE Spec2Model ----
(***************************************************************************)
(* Model of the image-sequence validation core of vfxvox-pipeline-utils:   *)
(* the ValidationResult accumulator (core/validators.py), the             *)
(* SequenceScanner (sequences/scanner.py), the format handler registry     *)
(* (sequences/formats.py) and SequenceValidator (sequences/validator.py).  *)
(*                                                                         *)
(* Strings are sequences of one-character strings, so that the regular     *)
(* expressions, int(), str() and zfill() are computed character by         *)
(* character.                                                              *)
(***************************************************************************)
EXTENDS Integers, Sequences, FiniteSets, TLC

VARIABLES
    pattern,      \* the pattern string the scanner / validator is given
    base_kind,    \* the pattern's base path: "missing", "dir" or "file"
    entries,      \* the base directory: file name -> [kind, content]
    ret,          \* the latest call and what it returned (None before any)
    vr,           \* a ValidationResult owned by a caller (passed, issues)
    vr_raised,    \* whether the latest add_issue on vr raised ValueError
    prev,         \* history: the call before the latest one, what it
                  \* returned and what the directory held then
    registry,     \* formats._HANDLERS: the list of format handlers
    registered,   \* history: the handlers given to register_format_handler,
                  \* oldest first
    scanning,     \* a validate call between its scan_all() and its
                  \* get_frame_range(): what it holds so far (NoScan if none)
    tree,         \* the directory tree under the root ShotLint is given:
                  \* relative path -> "dir" or "file"
    sessions,     \* SessionManager._sessions, in insertion order
    current_session, \* SessionManager._current_session (<<>> for None)
    storage,      \* the session files under the storage path
    now,          \* the clock datetime.utcnow() reads
    uuids         \* the number of session ids uuid4() has produced

\* the state of the session manager and of its storage
sessionVars == <<sessions, current_session, storage, now, uuids>>

\* the state of the sequence scanner, the validator, their caller and the
\* directory they read
seqVars == <<pattern, base_kind, entries, ret, vr, vr_raised, prev, registry,
             registered, scanning>>

vars == <<pattern, base_kind, entries, ret, vr, vr_raised, prev, registry, registered,
          scanning, tree, sessions, current_session, storage, now, uuids>>

None == "None"

(***************************************************************************)
(* Bounds                                                                  *)
(***************************************************************************)
MaxFiles == 3      \* files and subdirectories in the base directory
MaxIssues == 4     \* issues added to the caller's ValidationResult
MaxProbe == 3      \* scan_frame is probed with -1 .. MaxProbe, 12 and 123
MaxRegistered == 3 \* register_format_handler calls

(***************************************************************************)
(* Characters and strings                                                  *)
(***************************************************************************)
Digits == {"0", "1", "2", "3", "4", "5", "6", "7", "8", "9"}

DigitSeq == <<"0", "1", "2", "3", "4", "5", "6", "7", "8", "9">>

DigitVal(c) == CHOOSE v \in 0..9 : DigitSeq[v + 1] = c

MinOf(S) == CHOOSE x \in S : \A y \in S : x <= y

MaxOf(S) == CHOOSE x \in S : \A y \in S : x >= y

\* number of consecutive digit characters of s starting at index i (\d*)
RECURSIVE DigitRunLen(_, _)
DigitRunLen(s, i) ==
    IF i >= 1 /\ i <= Len(s) /\ s[i] \in Digits
    THEN 1 + DigitRunLen(s, i + 1)
    ELSE 0

\* number of consecutive '#' characters of s starting at index i (#+)
RECURSIVE HashRunLen(_, _)
HashRunLen(s, i) ==
    IF i >= 1 /\ i <= Len(s) /\ s[i] = "#"
    THEN 1 + HashRunLen(s, i + 1)
    ELSE 0

\* p occurs in s at index i
OccursAt(s, p, i) ==
    /\ i + Len(p) - 1 <= Len(s)
    /\ \A k \in 1..Len(p) : s[i + k - 1] = p[k]

\* int(s) for a string of decimal digits
RECURSIVE StrToInt(_)
StrToInt(s) ==
    IF Len(s) = 0 THEN 0
    ELSE 10 * StrToInt(SubSeq(s, 1, Len(s) - 1)) + DigitVal(s[Len(s)])

\* str(n) for n >= 0
RECURSIVE NatToStr(_)
NatToStr(n) ==
    IF n < 10 THEN <<DigitSeq[n + 1]>>
    ELSE NatToStr(n \div 10) \o <<DigitSeq[(n % 10) + 1]>>

\* str(n)
IntToStr(n) == IF n < 0 THEN <<"-">> \o NatToStr(0 - n) ELSE NatToStr(n)

\* a string of n '0' characters
RECURSIVE Zeros(_)
Zeros(n) == IF n <= 0 THEN <<>> ELSE <<"0">> \o Zeros(n - 1)

\* str.zfill(width): pads after a leading sign, never truncates
ZFill(s, width) ==
    IF Len(s) >= width THEN s
    ELSE IF Len(s) > 0 /\ s[1] \in {"-", "+"}
         THEN <<s[1]>> \o Zeros(width - Len(s)) \o Tail(s)
         ELSE Zeros(width - Len(s)) \o s

LowerChar(c) ==
    CASE c = "P" -> "p"
      [] c = "N" -> "n"
      [] c = "G" -> "g"
      [] c = "S" -> "s"
      [] OTHER -> c

\* str.lower()
Lower(s) == [i \in 1..Len(s) |-> LowerChar(s[i])]

\* str.lstrip('.')
RECURSIVE LStripDot(_)
LStripDot(s) ==
    IF Len(s) > 0 /\ s[1] = "." THEN LStripDot(Tail(s)) ELSE s

\* index of the last '/' of a path, 0 when there is none
LastSlash(p) ==
    LET idx == {i \in 1..Len(p) : p[i] = "/"}
    IN  IF idx = {} THEN 0 ELSE MaxOf(idx)

\* Path(p).name
PathName(p) == SubSeq(p, LastSlash(p) + 1, Len(p))

\* Path(p).parent ("." when the path has a single segment)
PathParent(p) ==
    IF LastSlash(p) = 0 THEN <<".">> ELSE SubSeq(p, 1, LastSlash(p) - 1)

\* Path(name).suffix: from the last '.', unless it leads or ends the name
PathSuffix(name) ==
    LET idx == {i \in 2..Len(name) : name[i] = "."}
    IN  IF idx = {} \/ MaxOf(idx) = Len(name) THEN <<>>
        ELSE SubSeq(name, MaxOf(idx), Len(name))

(***************************************************************************)
(* SequenceScanner._parse_pattern                                          *)
(***************************************************************************)

\* end index of a match of %(\d*)d starting at index i, 0 when none
PrintfEndAt(s, i) ==
    IF s[i] = "%"
    THEN LET k == DigitRunLen(s, i + 1)
         IN  IF i + 1 + k <= Len(s) /\ s[i + 1 + k] = "d"
             THEN i + 1 + k ELSE 0
    ELSE 0

\* end index of a match of \[(\d+)-(\d+)\] starting at index i, 0 when none
RangeEndAt(s, i) ==
    IF s[i] = "["
    THEN LET k1 == DigitRunLen(s, i + 1)
             dash == i + 1 + k1
             k2 == DigitRunLen(s, dash + 1)
             close == dash + 1 + k2
         IN  IF /\ k1 >= 1
                /\ dash <= Len(s) /\ s[dash] = "-"
                /\ k2 >= 1
                /\ close <= Len(s) /\ s[close] = "]"
             THEN close ELSE 0
    ELSE 0

\* re.search(r'%(\d*)d', s): the leftmost match, if any
SearchPrintf(s) ==
    LET starts == {i \in 1..Len(s) : PrintfEndAt(s, i) > 0}
    IN  IF starts = {} THEN [found |-> FALSE]
        ELSE LET i == MinOf(starts)
             IN  [found |-> TRUE, start |-> i, end |-> PrintfEndAt(s, i),
                  group1 |-> SubSeq(s, i + 1, PrintfEndAt(s, i) - 1)]

\* re.search(r'(#+)', s)
SearchHash(s) ==
    LET starts == {i \in 1..Len(s) : s[i] = "#"}
    IN  IF starts = {} THEN [found |-> FALSE]
        ELSE LET i == MinOf(starts)
             IN  [found |-> TRUE, start |-> i, end |-> i + HashRunLen(s, i) - 1,
                  group1 |-> SubSeq(s, i, i + HashRunLen(s, i) - 1)]

\* re.search(r'\[(\d+)-(\d+)\]', s)
SearchRange(s) ==
    LET starts == {i \in 1..Len(s) : RangeEndAt(s, i) > 0}
    IN  IF starts = {} THEN [found |-> FALSE]
        ELSE LET i == MinOf(starts)
                 k1 == DigitRunLen(s, i + 1)
             IN  [found |-> TRUE, start |-> i, end |-> RangeEndAt(s, i),
                  group1 |-> SubSeq(s, i + 1, i + k1),
                  group2 |-> SubSeq(s, i + k1 + 2, RangeEndAt(s, i) - 1)]

SupportedFormats == <<"printf (%04d)", "hash (####)", "range ([1001-1100])">>

\* _parse_pattern as it would be if the constructs were searched in the
\* whole pattern string instead of its final path segment
ParsePatternWholePath(p) ==
    LET fname == p
        pm == SearchPrintf(fname)
        hm == SearchHash(fname)
        rm == SearchRange(fname)
    IN  IF pm.found
        THEN [raised |-> None, pattern_type |-> "printf",
              padding |-> IF pm.group1 # <<>> THEN StrToInt(pm.group1) ELSE 0,
              base_name |-> SubSeq(fname, 1, pm.start - 1),
              extension |-> SubSeq(fname, pm.end + 1, Len(fname)),
              frame_start |-> <<>>, frame_end |-> <<>>]
        ELSE IF hm.found
        THEN [raised |-> None, pattern_type |-> "hash",
              padding |-> Len(hm.group1),
              base_name |-> SubSeq(fname, 1, hm.start - 1),
              extension |-> SubSeq(fname, hm.end + 1, Len(fname)),
              frame_start |-> <<>>, frame_end |-> <<>>]
        ELSE IF rm.found
        THEN [raised |-> None, pattern_type |-> "range",
              padding |-> Len(rm.group1),
              base_name |-> SubSeq(fname, 1, rm.start - 1),
              extension |-> SubSeq(fname, rm.end + 1, Len(fname)),
              frame_start |-> <<StrToInt(rm.group1)>>,
              frame_end |-> <<StrToInt(rm.group2)>>]
        ELSE [raised |-> "InvalidFormatError", format |-> fname,
              supported_formats |-> SupportedFormats]

\* _parse_pattern as it would be if the construct starting at the lowest
\* offset were chosen instead of the first kind probed
ParsePatternLowestOffset(p) ==
    LET fname == PathName(p)
        pm == SearchPrintf(fname)
        hm == SearchHash(fname)
        rm == SearchRange(fname)
        starts == (IF pm.found THEN {pm.start} ELSE {})
                  \cup (IF hm.found THEN {hm.start} ELSE {})
                  \cup (IF rm.found THEN {rm.start} ELSE {})
    IN  IF pm.found /\ pm.start = MinOf(starts)
        THEN [raised |-> None, pattern_type |-> "printf",
              padding |-> IF pm.group1 # <<>> THEN StrToInt(pm.group1) ELSE 0,
              base_name |-> SubSeq(fname, 1, pm.start - 1),
              extension |-> SubSeq(fname, pm.end + 1, Len(fname)),
              frame_start |-> <<>>, frame_end |-> <<>>]
        ELSE IF hm.found /\ hm.start = MinOf(starts)
        THEN [raised |-> None, pattern_type |-> "hash",
              padding |-> Len(hm.group1),
              base_name |-> SubSeq(fname, 1, hm.start - 1),
              extension |-> SubSeq(fname, hm.end + 1, Len(fname)),
              frame_start |-> <<>>, frame_end |-> <<>>]
        ELSE IF rm.found
        THEN [raised |-> None, pattern_type |-> "range",
              padding |-> Len(rm.group1),
              base_name |-> SubSeq(fname, 1, rm.start - 1),
              extension |-> SubSeq(fname, rm.end + 1, Len(fname)),
              frame_start |-> <<StrToInt(rm.group1)>>,
              frame_end |-> <<StrToInt(rm.group2)>>]
        ELSE [raised |-> "InvalidFormatError", format |-> fname,
              supported_formats |-> SupportedFormats]

\* the scanner's attributes after __init__, or the exception it raised.
\* An optional value is <<>> for None and <<v>> for the value v.
ParsePattern(p) ==
    LET fname == PathName(p)
        pm == SearchPrintf(fname)
        hm == SearchHash(fname)
        rm == SearchRange(fname)
    IN  IF pm.found
        THEN [raised |-> None, pattern_type |-> "printf",
              padding |-> IF pm.group1 # <<>> THEN StrToInt(pm.group1) ELSE 0,
              base_name |-> SubSeq(fname, 1, pm.start - 1),
              extension |-> SubSeq(fname, pm.end + 1, Len(fname)),
              frame_start |-> <<>>, frame_end |-> <<>>]
        ELSE IF hm.found
        THEN [raised |-> None, pattern_type |-> "hash",
              padding |-> Len(hm.group1),
              base_name |-> SubSeq(fname, 1, hm.start - 1),
              extension |-> SubSeq(fname, hm.end + 1, Len(fname)),
              frame_start |-> <<>>, frame_end |-> <<>>]
        ELSE IF rm.found
        THEN [raised |-> None, pattern_type |-> "range",
              padding |-> Len(rm.group1),
              base_name |-> SubSeq(fname, 1, rm.start - 1),
              extension |-> SubSeq(fname, rm.end + 1, Len(fname)),
              frame_start |-> <<StrToInt(rm.group1)>>,
              frame_end |-> <<StrToInt(rm.group2)>>]
        ELSE [raised |-> "InvalidFormatError", format |-> fname,
              supported_formats |-> SupportedFormats]

\* frame_regex.match(name): base_name, (\d+), extension, anchored at the
\* start of name only; the digit group is greedy and backtracks until the
\* extension follows.
FrameRegexMatch(sc, name) ==
    LET b == Len(sc.base_name)
        run == DigitRunLen(name, b + 1)
        ks == {k \in 1..run : OccursAt(name, sc.extension, b + k + 1)}
    IN  IF OccursAt(name, sc.base_name, 1) /\ ks # {}
        THEN [found |-> TRUE, group1 |-> SubSeq(name, b + 1, b + MaxOf(ks))]
        ELSE [found |-> FALSE]

(***************************************************************************)
(* The file system seen by the scanner: one base directory                 *)
(***************************************************************************)

\* file contents: four decodable images, bytes that are no image, a file
\* of zero bytes, and a file whose open() fails (no read permission)
ImageContents == {"img_a", "img_b", "img_c", "img_d"}

FileContents == ImageContents \cup {"garbage", "empty", "locked"}

\* what the image decoder reports for a decodable image
ImageResolution(content) ==
    CASE content = "img_a" -> <<1920, 1080>>
      [] content = "img_b" -> <<1280, 720>>
      [] content = "img_c" -> <<1920, 1080>>
      [] content = "img_d" -> <<1280, 720>>

ImageBitDepth(content) ==
    CASE content = "img_a" -> 8
      [] content = "img_b" -> 8
      [] content = "img_c" -> 16
      [] content = "img_d" -> 16

\* Path.exists() of base_path / name
PathExists(base, ents, name) == base = "dir" /\ name \in DOMAIN ents

\* base_path.iterdir(): raises (NotADirectoryError, FileNotFoundError) when
\* the base path is no directory, else yields the entries in some order
IterDir(base, listing) ==
    IF base = "dir" THEN [raised |-> FALSE, listing |-> listing]
    ELSE [raised |-> TRUE, listing |-> <<>>]

\* Path.is_file() of a directory entry
IsFile(ents, name) == ents[name].kind = "file"

\* open(path, 'rb') followed by f.read(1): the number of bytes read, or
\* "raised" when open() fails (a directory, a file without permission)
OpenRead1(ents, name) ==
    IF ents[name].kind # "file" \/ ents[name].content = "locked"
    THEN [raised |-> TRUE, nbytes |-> 0]
    ELSE [raised |-> FALSE,
          nbytes |-> IF ents[name].content = "empty" THEN 0 ELSE 1]

(***************************************************************************)
(* sequences/formats.py: the format handlers                               *)
(***************************************************************************)
StandardFormats ==
    { <<".", "p", "n", "g">>, <<".", "j", "p", "g">>,
      <<".", "j", "p", "e", "g">>, <<".", "t", "i", "f", "f">>,
      <<".", "t", "i", "f">>, <<".", "b", "m", "p">> }

\* the built-in registry, in list order
BuiltinHandlers == <<"exr", "dpx", "standard">>

\* handlers a caller registers: one for a format that has a built-in
\* handler, one for a format that has none, one that accepts every file
CustomHandlers == {"custom_png", "custom_dat", "custom_any"}

\* handler.can_handle(file_path)
CanHandle(handler, name) ==
    CASE handler = "exr" -> Lower(PathSuffix(name)) = <<".", "e", "x", "r">>
      [] handler = "dpx" -> Lower(PathSuffix(name)) = <<".", "d", "p", "x">>
      [] handler = "standard" -> Lower(PathSuffix(name)) \in StandardFormats
      [] handler = "custom_png" -> Lower(PathSuffix(name)) = <<".", "p", "n", "g">>
      [] handler = "custom_dat" -> Lower(PathSuffix(name)) = <<".", "d", "a", "t">>
      [] handler = "custom_any" -> TRUE
      [] OTHER -> FALSE

\* get_format_handler(file_path): the first handler of the list that can
\* handle the path, <<>> (None) when there is none
GetFormatHandler(handlers, name) ==
    LET idx == {i \in 1..Len(handlers) : CanHandle(handlers[i], name)}
    IN  IF idx = {} THEN <<>> ELSE <<handlers[MinOf(idx)]>>

\* register_format_handler as it would be if it appended the handler
RegisterFormatHandlerAtEnd(handlers, handler) == Append(handlers, handler)

\* register_format_handler(handler): _HANDLERS.insert(0, handler)
RegisterFormatHandler(handlers, handler) == <<handler>> \o handlers

\* handler.read_metadata(file_path) on a file that could be opened: the
\* metadata dictionary, or raised when the decoder rejects the bytes.
\* oiio tells whether the optional OpenImageIO package is installed.
ReadMetadata(handler, content, oiio) ==
    IF handler = "standard" \/ oiio
    THEN IF content \in ImageContents
         THEN [raised |-> FALSE,
               resolution |-> <<ImageResolution(content)>>,
               bit_depth |-> <<ImageBitDepth(content)>>]
         ELSE [raised |-> TRUE, resolution |-> <<>>, bit_depth |-> <<>>]
    ELSE [raised |-> FALSE, resolution |-> <<>>,
          bit_depth |-> IF handler = "exr" THEN <<16>> ELSE <<10>>]

(***************************************************************************)
(* SequenceScanner                                                         *)
(***************************************************************************)

\* list.sort() on a list of integers (insertion into a sorted prefix)
RECURSIVE ListSort(_)
ListSort(s) ==
    IF Len(s) <= 1 THEN s
    ELSE LET rest == ListSort(SubSeq(s, 1, Len(s) - 1))
             x == s[Len(s)]
             k == Cardinality({i \in 1..Len(rest) : rest[i] <= x})
         IN  SubSeq(rest, 1, k) \o <<x>> \o SubSeq(rest, k + 1, Len(rest))

\* the loop of detect_frames over base_path.iterdir(), which yields the
\* entries in the order `listing`
RECURSIVE CollectFrames(_, _, _)
CollectFrames(sc, ents, listing) ==
    IF listing = <<>> THEN <<>>
    ELSE LET name == listing[Len(listing)]
             before == CollectFrames(sc, ents, SubSeq(listing, 1, Len(listing) - 1))
             m == FrameRegexMatch(sc, name)
         IN  IF ~IsFile(ents, name) THEN before
             ELSE IF m.found THEN Append(before, StrToInt(m.group1))
             ELSE before

\* detect_frames as it would be without the base_path.exists() test
DetectFramesNoExistsCheck(sc, base, ents, listing) ==
    LET it == IterDir(base, listing)
    IN  IF it.raised THEN [raised |-> TRUE, value |-> <<>>]
        ELSE [raised |-> FALSE,
              value |-> ListSort(CollectFrames(sc, ents, it.listing))]

\* detect_frames() when iterdir() enumerates the directory as `listing`:
\* the list it returns, or raised when iterdir() fails
DetectFrames(sc, base, ents, listing) ==
    IF base = "missing" THEN [raised |-> FALSE, value |-> <<>>]
    ELSE LET it == IterDir(base, listing)
         IN  IF it.raised THEN [raised |-> TRUE, value |-> <<>>]
             ELSE [raised |-> FALSE,
                   value |-> ListSort(CollectFrames(sc, ents, it.listing))]

\* the file name scan_frame would build if it never padded the number
FrameFileNameUnpadded(sc, n) ==
    sc.base_name \o IntToStr(n) \o sc.extension

\* the file name scan_frame builds for a frame number
FrameFileName(sc, n) ==
    LET frame_str == IF sc.padding > 0
                     THEN ZFill(IntToStr(n), sc.padding)
                     ELSE IntToStr(n)
    IN  sc.base_name \o frame_str \o sc.extension

\* _read_frame_metadata as it would be without its try block
ReadFrameMetadataNoCatch(info, ents, handlers, oiio) ==
    LET h == GetFormatHandler(handlers, info.file_name)
    IN  IF h = <<>> THEN [raised |-> FALSE, info |-> info]
        ELSE LET md == ReadMetadata(h[1], ents[info.file_name].content, oiio)
             IN  IF md.raised THEN [raised |-> TRUE, info |-> info]
                 ELSE [raised |-> FALSE,
                       info |-> [info EXCEPT !.resolution = md.resolution,
                                             !.bit_depth = md.bit_depth]]

\* _read_frame_metadata(frame_info): the whole body is in a try block whose
\* except clause only logs, so a failing reader leaves the frame as it is
ReadFrameMetadata(info, ents, handlers, oiio) ==
    LET h == GetFormatHandler(handlers, info.file_name)
    IN  IF h = <<>> THEN [raised |-> FALSE, info |-> info]
        ELSE LET md == ReadMetadata(h[1], ents[info.file_name].content, oiio)
             IN  IF md.raised THEN [raised |-> FALSE, info |-> info]
                 ELSE [raised |-> FALSE,
                       info |-> [info EXCEPT !.resolution = md.resolution,
                                             !.bit_depth = md.bit_depth]]

\* scan_frame as it would be if readable started as true and were cleared
\* only by a failing open()
ScanFrameOptimistic(sc, base, ents, handlers, oiio, n) ==
    LET filename == FrameFileName(sc, n)
        exists == PathExists(base, ents, filename)
        readable == IF exists THEN ~OpenRead1(ents, filename).raised ELSE TRUE
        info == [frame_number |-> n,
                 file_name |-> filename,
                 exists |-> exists,
                 readable |-> readable,
                 resolution |-> <<>>,
                 bit_depth |-> <<>>,
                 format |-> IF sc.extension # <<>>
                            THEN <<Lower(LStripDot(sc.extension))>>
                            ELSE <<>>]
    IN  IF exists /\ readable
        THEN ReadFrameMetadata(info, ents, handlers, oiio)
        ELSE [raised |-> FALSE, info |-> info]

\* scan_frame(frame_number): the FrameInfo it returns, or raised when an
\* exception leaves the call
ScanFrame(sc, base, ents, handlers, oiio, n) ==
    LET filename == FrameFileName(sc, n)
        exists == PathExists(base, ents, filename)
        readable == exists /\ ~OpenRead1(ents, filename).raised
        info == [frame_number |-> n,
                 file_name |-> filename,
                 exists |-> exists,
                 readable |-> readable,
                 resolution |-> <<>>,
                 bit_depth |-> <<>>,
                 format |-> IF sc.extension # <<>>
                            THEN <<Lower(LStripDot(sc.extension))>>
                            ELSE <<>>]
    IN  IF readable
        THEN ReadFrameMetadata(info, ents, handlers, oiio)
        ELSE [raised |-> FALSE, info |-> info]

\* scan_all as it would be if it kept only the frames whose file exists
ScanAllExistingOnly(sc, base, ents, handlers, oiio, detected) ==
    LET found == SelectSeq(detected.value,
                     LAMBDA n : PathExists(base, ents, FrameFileName(sc, n)))
    IN  [raised |-> detected.raised,
         frames |-> [i \in 1..Len(found) |->
                        ScanFrame(sc, base, ents, handlers, oiio, found[i]).info]]

\* scan_all() given the outcome of its detect_frames() call
ScanAll(sc, base, ents, handlers, oiio, detected) ==
    LET outs == [i \in 1..Len(detected.value) |->
                    ScanFrame(sc, base, ents, handlers, oiio, detected.value[i])]
    IN  [raised |-> detected.raised \/ \E i \in 1..Len(outs) : outs[i].raised,
         frames |-> [i \in 1..Len(outs) |-> outs[i].info]]

\* get_frame_range as it would be if it took the first frame for both ends
GetFrameRangeFirstOnly(detected) ==
    IF detected.raised THEN [raised |-> TRUE, value |-> <<>>]
    ELSE IF detected.value = <<>> THEN [raised |-> FALSE, value |-> <<>>]
    ELSE [raised |-> FALSE,
          value |-> << <<detected.value[1], detected.value[1]>> >>]

\* get_frame_range() given the outcome of its detect_frames() call
GetFrameRange(detected) ==
    IF detected.raised THEN [raised |-> TRUE, value |-> <<>>]
    ELSE IF detected.value = <<>> THEN [raised |-> FALSE, value |-> <<>>]
    ELSE [raised |-> FALSE,
          value |-> << <<detected.value[1],
                         detected.value[Len(detected.value)]>> >>]

(***************************************************************************)
(* core/validators.py: ValidationIssue and ValidationResult                *)
(***************************************************************************)
ValidSeverities == {"error", "warning", "info"}

\* ValidationResult(passed=..., metadata=...)
NewResult(passed, metadata) ==
    [passed |-> passed, issues |-> <<>>, metadata |-> metadata]

\* add_issue as it would be if ValidationIssue did not validate its
\* severity
AddIssueUnvalidated(result, severity, message, location, details) ==
    [raised |-> FALSE,
     result |-> [result EXCEPT
         !.issues = Append(@, [severity |-> severity,
                               message |-> message,
                               location |-> location,
                               details |-> details]),
         !.passed = IF severity = "error" THEN FALSE ELSE @]]

\* add_issue as it would be if passed were recomputed from the severity of
\* the issue just added
AddIssueRecomputesPassed(result, severity, message, location, details) ==
    IF severity \notin ValidSeverities
    THEN [raised |-> TRUE, result |-> result]
    ELSE [raised |-> FALSE,
          result |-> [result EXCEPT
              !.issues = Append(@, [severity |-> severity,
                                    message |-> message,
                                    location |-> location,
                                    details |-> details]),
              !.passed = (severity # "error")]]

\* ValidationResult.add_issue: the ValidationIssue constructor raises
\* ValueError for an unknown severity before anything is appended
AddIssue(result, severity, message, location, details) ==
    IF severity \notin ValidSeverities
    THEN [raised |-> TRUE, result |-> result]
    ELSE [raised |-> FALSE,
          result |-> [result EXCEPT
              !.issues = Append(@, [severity |-> severity,
                                    message |-> message,
                                    location |-> location,
                                    details |-> details]),
              !.passed = IF severity = "error" THEN FALSE ELSE @]]

\* has_errors()
HasErrors(result) ==
    \E i \in 1..Len(result.issues) : result.issues[i].severity = "error"

\* get_errors(), get_warnings(), get_info(): the issues of one severity
RECURSIVE IssuesOf(_, _)
IssuesOf(issues, severity) ==
    IF issues = <<>> THEN <<>>
    ELSE LET before == IssuesOf(SubSeq(issues, 1, Len(issues) - 1), severity)
             last == issues[Len(issues)]
         IN  IF last.severity = severity THEN Append(before, last) ELSE before

\* error_count()
ErrorCount(result) == Len(IssuesOf(result.issues, "error"))

\* warning_count()
WarningCount(result) == Len(IssuesOf(result.issues, "warning"))

(***************************************************************************)
(* core/config.py                                                          *)
(***************************************************************************)

\* Config.get as it would be if an absent key gave a false value instead
\* of the default
ConfigGetNoDefault(cfg, key, default) ==
    IF key \in DOMAIN cfg THEN cfg[key] ELSE FALSE

\* Config.get("sequences.<key>", default) on a configuration whose
\* "sequences" section is the function cfg
ConfigGet(cfg, key, default) ==
    IF key \in DOMAIN cfg THEN cfg[key] ELSE default

(***************************************************************************)
(* sequences/validator.py: SequenceValidator                               *)
(***************************************************************************)

\* sorted(S) for a finite set of integers
RECURSIVE Sorted(_)
Sorted(S) ==
    IF S = {} THEN <<>>
    ELSE <<MinOf(S)>> \o Sorted(S \ {MinOf(S)})

\* lst[:n]
Take(lst, n) == SubSeq(lst, 1, IF Len(lst) < n THEN Len(lst) ELSE n)

\* f"{a}-{b}"
RangeText(a, b) == IntToStr(a) \o <<"-">> \o IntToStr(b)

MissingSampleLimit == 10

CorruptedSampleLimit == 10

MismatchSampleLimit == 5

\* check_missing_frames as it would be if the details carried the sample
\* of the message instead of the full list
CheckMissingFramesTruncated(frames, result) ==
    IF frames = <<>> THEN result
    ELSE LET frame_numbers == {frames[i].frame_number : i \in 1..Len(frames)}
             first_frame == MinOf(frame_numbers)
             last_frame == MaxOf(frame_numbers)
             missing_frames == Sorted((first_frame..last_frame) \ frame_numbers)
         IN  IF missing_frames = <<>> THEN result
             ELSE AddIssue(result, "error",
                    IF Len(missing_frames) > MissingSampleLimit
                    THEN [fmt |-> "{n} frames missing. Sample: {sample}",
                          n |-> Len(missing_frames),
                          sample |-> Take(missing_frames, MissingSampleLimit)]
                    ELSE [fmt |-> "Missing frames: {missing_frames}",
                          n |-> Len(missing_frames),
                          sample |-> missing_frames],
                    <<[fmt |-> "frames {first_frame}-{last_frame}",
                       text |-> RangeText(first_frame, last_frame)]>>,
                    <<[kind |-> "missing",
                       missing_count |-> Len(missing_frames),
                       missing_frames |-> Take(missing_frames, MissingSampleLimit),
                       expected_range |-> RangeText(first_frame, last_frame),
                       found_count |-> Cardinality(frame_numbers)]>>).result

\* check_missing_frames(frames, result)
CheckMissingFrames(frames, result) ==
    IF frames = <<>> THEN result
    ELSE LET frame_numbers == {frames[i].frame_number : i \in 1..Len(frames)}
             first_frame == MinOf(frame_numbers)
             last_frame == MaxOf(frame_numbers)
             missing_frames == Sorted((first_frame..last_frame) \ frame_numbers)
         IN  IF missing_frames = <<>> THEN result
             ELSE AddIssue(result, "error",
                    IF Len(missing_frames) > MissingSampleLimit
                    THEN [fmt |-> "{n} frames missing. Sample: {sample}",
                          n |-> Len(missing_frames),
                          sample |-> Take(missing_frames, MissingSampleLimit)]
                    ELSE [fmt |-> "Missing frames: {missing_frames}",
                          n |-> Len(missing_frames),
                          sample |-> missing_frames],
                    <<[fmt |-> "frames {first_frame}-{last_frame}",
                       text |-> RangeText(first_frame, last_frame)]>>,
                    <<[kind |-> "missing",
                       missing_count |-> Len(missing_frames),
                       missing_frames |-> missing_frames,
                       expected_range |-> RangeText(first_frame, last_frame),
                       found_count |-> Cardinality(frame_numbers)]>>).result

\* the corrupted frames as they would be if every unreadable frame counted,
\* absent ones included
RECURSIVE CorruptedFramesUnreadable(_)
CorruptedFramesUnreadable(frames) ==
    IF frames = <<>> THEN <<>>
    ELSE LET before == CorruptedFramesUnreadable(SubSeq(frames, 1, Len(frames) - 1))
             frame == frames[Len(frames)]
         IN  IF ~frame.readable
             THEN Append(before, frame.frame_number)
             ELSE before

\* the frame numbers of the frames with exists and not readable, in order
RECURSIVE CorruptedFrames(_)
CorruptedFrames(frames) ==
    IF frames = <<>> THEN <<>>
    ELSE LET before == CorruptedFrames(SubSeq(frames, 1, Len(frames) - 1))
             frame == frames[Len(frames)]
         IN  IF frame.exists /\ ~frame.readable
             THEN Append(before, frame.frame_number)
             ELSE before

\* check_corrupted_frames(frames, result)
CheckCorruptedFrames(frames, result) ==
    LET corrupted == CorruptedFrames(frames)
    IN  IF corrupted = <<>> THEN result
        ELSE AddIssue(result, "error",
               IF Len(corrupted) > CorruptedSampleLimit
               THEN [fmt |-> "{n} frames corrupted or unreadable. Sample: {sample}",
                     n |-> Len(corrupted),
                     sample |-> Take(corrupted, CorruptedSampleLimit)]
               ELSE [fmt |-> "Corrupted or unreadable frames: {corrupted}",
                     n |-> Len(corrupted),
                     sample |-> corrupted],
               <<"sequence">>,
               <<[kind |-> "corrupted",
                  corrupted_count |-> Len(corrupted),
                  corrupted_frames |-> corrupted]>>).result

\* [f for f in frames if f.<field> is not None]
RECURSIVE FramesWith(_, _)
FramesWith(frames, field) ==
    IF frames = <<>> THEN <<>>
    ELSE LET before == FramesWith(SubSeq(frames, 1, Len(frames) - 1), field)
             frame == frames[Len(frames)]
         IN  IF frame[field] # <<>> THEN Append(before, frame) ELSE before

\* the mismatch records as they would be if every frame were compared with
\* the frame before it instead of the reference
RECURSIVE MismatchesAgainstPrevious(_, _, _)
MismatchesAgainstPrevious(frames_with, field, reference) ==
    IF Len(frames_with) <= 1 THEN <<>>
    ELSE LET before == MismatchesAgainstPrevious(
                           SubSeq(frames_with, 1, Len(frames_with) - 1),
                           field, reference)
             frame == frames_with[Len(frames_with)]
             previous == frames_with[Len(frames_with) - 1]
         IN  IF frame[field] # previous[field]
             THEN Append(before, [frame |-> frame.frame_number,
                                  expected |-> reference[1],
                                  actual |-> frame[field][1]])
             ELSE before

\* the mismatch records of the frames after the first whose field differs
\* from the reference value
RECURSIVE Mismatches(_, _, _)
Mismatches(frames_with, field, reference) ==
    IF Len(frames_with) <= 1 THEN <<>>
    ELSE LET before == Mismatches(SubSeq(frames_with, 1, Len(frames_with) - 1),
                                  field, reference)
             frame == frames_with[Len(frames_with)]
         IN  IF frame[field] # reference
             THEN Append(before, [frame |-> frame.frame_number,
                                  expected |-> reference[1],
                                  actual |-> frame[field][1]])
             ELSE before

\* check_resolution_consistency(frames, result)
CheckResolutionConsistency(frames, result) ==
    LET frames_with_res == FramesWith(frames, "resolution")
    IN  IF frames_with_res = <<>> THEN result
        ELSE LET reference_res == frames_with_res[1].resolution
                 mismatches == Mismatches(frames_with_res, "resolution", reference_res)
             IN  IF mismatches = <<>> THEN result
                 ELSE AddIssue(result, "error",
                        IF Len(mismatches) > MismatchSampleLimit
                        THEN [fmt |-> "Resolution mismatch in {n} frames. Sample: {sample}",
                              n |-> Len(mismatches),
                              sample |-> Take(mismatches, MismatchSampleLimit)]
                        ELSE [fmt |-> "Resolution mismatch detected: {mismatches}",
                              n |-> Len(mismatches),
                              sample |-> mismatches],
                        <<"sequence">>,
                        <<[kind |-> "resolution",
                           reference_resolution |-> reference_res[1],
                           mismatch_count |-> Len(mismatches),
                           mismatches |-> mismatches]>>).result

\* check_bit_depth_consistency(frames, result)
CheckBitDepthConsistency(frames, result) ==
    LET frames_with_depth == FramesWith(frames, "bit_depth")
    IN  IF frames_with_depth = <<>> THEN result
        ELSE LET reference_depth == frames_with_depth[1].bit_depth
                 mismatches == Mismatches(frames_with_depth, "bit_depth", reference_depth)
             IN  IF mismatches = <<>> THEN result
                 ELSE AddIssue(result, "error",
                        IF Len(mismatches) > MismatchSampleLimit
                        THEN [fmt |-> "Bit depth mismatch in {n} frames. Sample: {sample}",
                              n |-> Len(mismatches),
                              sample |-> Take(mismatches, MismatchSampleLimit)]
                        ELSE [fmt |-> "Bit depth mismatch detected: {mismatches}",
                              n |-> Len(mismatches),
                              sample |-> mismatches],
                        <<"sequence">>,
                        <<[kind |-> "bit_depth",
                           reference_bit_depth |-> reference_depth[1],
                           mismatch_count |-> Len(mismatches),
                           mismatches |-> mismatches]>>).result

\* the four checks as they would be if validate stopped at the first
\* check that reported an error
RunChecksShortCircuit(cfg, frames, result) ==
    LET r1 == CheckMissingFrames(frames, result)
        r2 == IF HasErrors(r1) THEN r1 ELSE CheckCorruptedFrames(frames, r1)
        r3 == IF ~HasErrors(r2) /\ ConfigGet(cfg, "check_resolution", TRUE)
              THEN CheckResolutionConsistency(frames, r2) ELSE r2
        r4 == IF ~HasErrors(r3) /\ ConfigGet(cfg, "check_bit_depth", TRUE)
              THEN CheckBitDepthConsistency(frames, r3) ELSE r3
    IN  r4

\* the four checks of validate, run one after the other on the same list
RunChecks(cfg, frames, result) ==
    LET r1 == CheckMissingFrames(frames, result)
        r2 == CheckCorruptedFrames(frames, r1)
        r3 == IF ConfigGet(cfg, "check_resolution", TRUE)
              THEN CheckResolutionConsistency(frames, r2) ELSE r2
        r4 == IF ConfigGet(cfg, "check_bit_depth", TRUE)
              THEN CheckBitDepthConsistency(frames, r3) ELSE r3
    IN  r4

\* the statements of the try block as they would be if the absence of
\* frames were reported as an error
ValidateStepsEmptyIsError(p, cfg, sc, scanned, frame_range) ==
    LET result == NewResult(TRUE, [validator |-> "SequenceValidator",
                                   pattern |-> p,
                                   frame_count |-> <<>>,
                                   frame_range |-> <<>>])
        frames == scanned.frames
    IN  IF sc.raised # None
        THEN [raised |-> sc.raised, result |-> result]
        ELSE IF scanned.raised
        THEN [raised |-> "Exception", result |-> result]
        ELSE IF frames = <<>>
        THEN [raised |-> None,
              result |-> AddIssue(result, "error",
                                  [fmt |-> "No frames found matching pattern",
                                   n |-> 0, sample |-> <<>>],
                                  <<p>>, <<>>).result]
        ELSE IF frame_range.raised
        THEN [raised |-> "Exception", result |-> result]
        ELSE [raised |-> None,
              result |-> RunChecks(cfg, frames,
                  [result EXCEPT
                      !.metadata.frame_count = <<Len(frames)>>,
                      !.metadata.frame_range =
                          IF frame_range.value # <<>>
                          THEN <<RangeText(frame_range.value[1][1],
                                           frame_range.value[1][2])>>
                          ELSE <<>>])]

\* the statements of the try block of SequenceValidator.validate(pattern),
\* given what its calls produce: sc is SequenceScanner(pattern), scanned
\* is scanner.scan_all() and frame_range is scanner.get_frame_range(), each
\* with the exception it raised, if any.  The value is the result built so
\* far and the exception that left the block, if any.
ValidateSteps(p, cfg, sc, scanned, frame_range) ==
    LET result == NewResult(TRUE, [validator |-> "SequenceValidator",
                                   pattern |-> p,
                                   frame_count |-> <<>>,
                                   frame_range |-> <<>>])
        frames == scanned.frames
    IN  IF sc.raised # None
        THEN [raised |-> sc.raised, result |-> result]
        ELSE IF scanned.raised
        THEN [raised |-> "Exception", result |-> result]
        ELSE IF frames = <<>>
        THEN [raised |-> None,
              result |-> AddIssue(result, "warning",
                                  [fmt |-> "No frames found matching pattern",
                                   n |-> 0, sample |-> <<>>],
                                  <<p>>, <<>>).result]
        ELSE IF frame_range.raised
        THEN [raised |-> "Exception", result |-> result]
        ELSE [raised |-> None,
              result |-> RunChecks(cfg, frames,
                  [result EXCEPT
                      !.metadata.frame_count = <<Len(frames)>>,
                      !.metadata.frame_range =
                          IF frame_range.value # <<>>
                          THEN <<RangeText(frame_range.value[1][1],
                                           frame_range.value[1][2])>>
                          ELSE <<>>])]

\* the try block of SequenceValidator.validate(pattern).
\* listing1 and listing2 are the enumerations of the directory seen by the
\* detect_frames() of scan_all() and of get_frame_range(); ents1 and ents2
\* the directory contents at those two moments.
ValidateTry(p, cfg, handlers, oiio, base1, ents1, listing1, base2, ents2, listing2) ==
    ValidateSteps(p, cfg, ParsePattern(p),
                  ScanAll(ParsePattern(p), base1, ents1, handlers, oiio,
                          DetectFrames(ParsePattern(p), base1, ents1, listing1)),
                  GetFrameRange(DetectFrames(ParsePattern(p), base2, ents2,
                                             listing2)))

\* the except clause of validate: `except Exception` turns whatever left
\* the try block t into one error issue
ValidateExcept(p, t) ==
    IF t.raised # None
    THEN [raised |-> None,
          result |-> AddIssue(t.result, "error",
                              [fmt |-> "Validation failed: {e}", n |-> 0,
                               sample |-> <<t.raised>>],
                              <<p>>, <<>>).result]
    ELSE [raised |-> None, result |-> t.result]

\* validate as it would be without its except clause
ValidateNoCatch(p, cfg, handlers, oiio, base1, ents1, listing1, base2, ents2, listing2) ==
    ValidateTry(p, cfg, handlers, oiio, base1, ents1, listing1,
                base2, ents2, listing2)

\* SequenceValidator.validate(pattern): the result is returned whatever
\* happened in the try block
Validate(p, cfg, handlers, oiio, base1, ents1, listing1, base2, ents2, listing2) ==
    ValidateExcept(p, ValidateTry(p, cfg, handlers, oiio, base1, ents1, listing1,
                                  base2, ents2, listing2))

(***************************************************************************)
(* The inputs: patterns, directory entries, frame numbers, configurations  *)
(***************************************************************************)
PatPrintf == <<"d", "/", "s", "%", "0", "2", "d", ".", "p", "n", "g">>

PatPrintfNoPad == <<"d", "/", "s", "%", "d", ".", "p", "n", "g">>

PatHash == <<"d", "/", "s", "#", "#", ".", "d", "a", "t">>

PatRange == <<"d", "/", "s", "[", "0", "1", "-", "0", "3", "]", ".", "p", "n", "g">>

PatHashPrintf == <<"d", "/", "s", "#", "%", "2", "d", ".", "p", "n", "g">>

PatRangeHash == <<"d", "/", "s", "[", "1", "-", "3", "]", "#", ".", "p", "n", "g">>

PatNoNotation == <<"d", "/", "s", ".", "p", "n", "g">>

PatDirOnly == <<"d", "#", "/", "s", ".", "p", "n", "g">>

\* the pattern and the files of the end-to-end scenario: shot.%04d.png over
\* the frames 1001 to 1010
PatShot == <<"d", "/", "s", "%", "0", "4", "d", ".", "p", "n", "g">>

ShotFrames == 1001..1010

ShotFile(n) == <<"s">> \o NatToStr(n) \o <<".", "p", "n", "g">>

Patterns == {PatPrintf, PatPrintfNoPad, PatHash, PatRange, PatHashPrintf,
             PatRangeHash, PatNoNotation, PatDirOnly}

NameS01 == <<"s", "0", "1", ".", "p", "n", "g">>

NameS02 == <<"s", "0", "2", ".", "p", "n", "g">>

NameS03 == <<"s", "0", "3", ".", "p", "n", "g">>

NameS1 == <<"s", "1", ".", "p", "n", "g">>

NameS14 == <<"s", "1", "4", ".", "p", "n", "g">>

NameS02Bak == <<"s", "0", "2", ".", "p", "n", "g", ".", "b", "a", "k">>

NameXS01 == <<"x", "s", "0", "1", ".", "p", "n", "g">>

NameS01Dat == <<"s", "0", "1", ".", "d", "a", "t">>

NameS01Exr == <<"s", "0", "1", ".", "e", "x", "r">>

NameS01Dpx == <<"s", "0", "1", ".", "d", "p", "x">>

NameS01Upper == <<"s", "0", "1", ".", "P", "N", "G">>

\* the paths get_format_handler is asked about
ProbePaths == {NameS01, NameS01Upper, NameS01Dat, NameS01Exr, NameS01Dpx,
               NameS02Bak}

File(content) == [kind |-> "file", content |-> content]

SubDir == [kind |-> "dir", content |-> "none"]

\* the entries that may be created in the base directory
Creatable ==
    [NameS01 |-> {File("img_a"), File("garbage"), File("empty"), File("locked")},
     NameS02 |-> {File("img_a"), File("img_b"), File("img_c"), File("garbage")},
     NameS03 |-> {File("img_a"), SubDir},
     NameS1 |-> {File("img_a")},
     NameS14 |-> {File("img_a"), File("img_d")},
     NameS02Bak |-> {File("img_a")},
     NameXS01 |-> {File("img_a")},
     NameS01Dat |-> {File("garbage")}]

NameOf(key) ==
    CASE key = "NameS01" -> NameS01
      [] key = "NameS02" -> NameS02
      [] key = "NameS03" -> NameS03
      [] key = "NameS1" -> NameS1
      [] key = "NameS14" -> NameS14
      [] key = "NameS02Bak" -> NameS02Bak
      [] key = "NameXS01" -> NameXS01
      [] key = "NameS01Dat" -> NameS01Dat

Names == {NameOf(key) : key \in DOMAIN Creatable}

ProbeFrames == (-1..MaxProbe) \cup {12, 123}

ConfigKeys == {"check_resolution", "check_bit_depth"}

Configs == UNION {[keys -> BOOLEAN] : keys \in SUBSET ConfigKeys}

\* the orders in which iterdir() may enumerate the entries
Listings(ents) ==
    LET n == Cardinality(DOMAIN ents)
    IN  {l \in [1..n -> DOMAIN ents] : \A i, j \in 1..n : l[i] = l[j] => i = j}

NoEntries == [name \in {} |-> SubDir]

NoRet == [op |-> "none"]

\* no earlier call
NoPrev == [call |-> NoRet, base_kind |-> "missing", entries |-> NoEntries]

\* the elements of a finite set, one after the other in some order
RECURSIVE SeqOfSet(_)
SeqOfSet(S) ==
    IF S = {} THEN <<>>
    ELSE LET x == CHOOSE y \in S : TRUE
         IN  Append(SeqOfSet(S \ {x}), x)

\* the enumeration order validate sees in its two readings of an unchanged
\* directory: some order
SomeListing(ents) == SeqOfSet(DOMAIN ents)

(***************************************************************************)
(* State machine                                                           *)
(***************************************************************************)
TypeOK ==
    /\ pattern \in Patterns \cup {PatShot}
    /\ base_kind \in {"missing", "dir", "file"}
    /\ DOMAIN entries \subseteq Names \cup {ShotFile(n) : n \in ShotFrames}
    /\ vr.passed \in BOOLEAN
    /\ vr_raised \in BOOLEAN

\* the registry as the module is imported: the built-in handlers
InitHandlers ==
    /\ registry = BuiltinHandlers
    /\ registered = <<>>

\* no validate call is under way
NoScan == [op |-> "none"]

\* the root directory ShotLint is given holds nothing
NoTree == [path \in {} |-> "dir"]

\* SessionManager.__init__ over an empty storage directory
InitSessions ==
    /\ sessions = <<>>
    /\ current_session = <<>>
    /\ storage = {}
    /\ now = 0
    /\ uuids = 0

\* the parts of the state a scenario does not touch
InitRest ==
    /\ scanning = NoScan
    /\ tree = NoTree
    /\ InitSessions

InitFs ==
    /\ base_kind = "missing"
    /\ entries = NoEntries
    /\ ret = NoRet
    /\ prev = NoPrev
    /\ InitHandlers
    /\ InitRest

InitResult ==
    /\ vr = NewResult(TRUE, [validator |-> "caller"])
    /\ vr_raised = FALSE

\* a scanner / validator working on some pattern over an absent directory
Init ==
    /\ pattern \in Patterns
    /\ InitFs
    /\ InitResult

\* the caller takes the value the latest call returned; the next call, or
\* a change of the directory, comes after that
TakeResult ==
    /\ ret # NoRet
    /\ ret' = NoRet
    /\ UNCHANGED <<pattern, base_kind, entries, vr, vr_raised, prev, registry, registered, scanning, tree, sessionVars>>

\* the file system changes between calls
MkDir ==
    /\ ret = NoRet
    /\ base_kind = "missing"
    /\ base_kind' = "dir"
    /\ ret' = NoRet
    /\ UNCHANGED <<pattern, entries, vr, vr_raised, prev, registry, registered, scanning, tree, sessionVars>>

\* a regular file is created where the pattern expects its directory
MkBaseFile ==
    /\ ret = NoRet
    /\ base_kind = "missing"
    /\ base_kind' = "file"
    /\ ret' = NoRet
    /\ UNCHANGED <<pattern, entries, vr, vr_raised, prev, registry, registered, scanning, tree, sessionVars>>

RmBase ==
    /\ ret = NoRet
    /\ base_kind # "missing"
    /\ entries = NoEntries
    /\ base_kind' = "missing"
    /\ ret' = NoRet
    /\ UNCHANGED <<pattern, entries, vr, vr_raised, prev, registry, registered, scanning, tree, sessionVars>>

CreateEntry ==
    /\ ret = NoRet
    /\ base_kind = "dir"
    /\ Cardinality(DOMAIN entries) < MaxFiles
    /\ \E key \in DOMAIN Creatable : \E e \in Creatable[key] :
          /\ NameOf(key) \notin DOMAIN entries
          /\ entries' = [name \in DOMAIN entries \cup {NameOf(key)} |->
                            IF name = NameOf(key) THEN e ELSE entries[name]]
    /\ ret' = NoRet
    /\ UNCHANGED <<pattern, base_kind, vr, vr_raised, prev, registry, registered, scanning, tree, sessionVars>>

RemoveEntry ==
    /\ ret = NoRet
    /\ \E gone \in DOMAIN entries :
          entries' = [name \in DOMAIN entries \ {gone} |-> entries[name]]
    /\ ret' = NoRet
    /\ UNCHANGED <<pattern, base_kind, vr, vr_raised, prev, registry, registered, scanning, tree, sessionVars>>

\* SequenceScanner(pattern)
CallNewScanner ==
    /\ ret = NoRet
    /\ ret' = [op |-> "new_scanner", scanner |-> ParsePattern(pattern)]
    /\ UNCHANGED <<pattern, base_kind, entries, vr, vr_raised, prev, registry, registered, scanning, tree, sessionVars>>

\* detect_frames as it would be if the scanner kept the list of its
\* previous detect_frames() call and returned it again
CallDetectFramesCached ==
    /\ ret = NoRet
    /\ ParsePattern(pattern).raised = None
    /\ \E listing \in Listings(entries) :
          \E out \in {IF prev.call.op = "detect_frames"
                      THEN [raised |-> FALSE, value |-> prev.call.value]
                      ELSE DetectFrames(ParsePattern(pattern), base_kind,
                                        entries, listing)} :
             ret' = [op |-> "detect_frames",
                     raised |-> out.raised, value |-> out.value]
    /\ UNCHANGED <<pattern, base_kind, entries, vr, vr_raised, prev, registry, registered, scanning, tree, sessionVars>>

\* scanner.detect_frames()
CallDetectFrames ==
    /\ ret = NoRet
    /\ ParsePattern(pattern).raised = None
    /\ \E listing \in Listings(entries) :
          \E out \in {DetectFrames(ParsePattern(pattern), base_kind,
                                  entries, listing)} :
             ret' = [op |-> "detect_frames",
                     raised |-> out.raised, value |-> out.value]
    /\ UNCHANGED <<pattern, base_kind, entries, vr, vr_raised, prev, registry, registered, scanning, tree, sessionVars>>

\* scanner.scan_frame(n)
CallScanFrame ==
    /\ ret = NoRet
    /\ ParsePattern(pattern).raised = None
    /\ \E n \in ProbeFrames : \E oiio \in BOOLEAN :
          \E out \in {ScanFrame(ParsePattern(pattern), base_kind, entries,
                               registry, oiio, n)} :
             ret' = [op |-> "scan_frame", arg |-> n,
                     raised |-> out.raised, value |-> out.info]
    /\ UNCHANGED <<pattern, base_kind, entries, vr, vr_raised, prev, registry, registered, scanning, tree, sessionVars>>

\* scanner.scan_all()
CallScanAll ==
    /\ ret = NoRet
    /\ ParsePattern(pattern).raised = None
    /\ \E listing \in Listings(entries) : \E oiio \in BOOLEAN :
          \E out \in {ScanAll(ParsePattern(pattern), base_kind, entries,
                             registry, oiio,
                             DetectFrames(ParsePattern(pattern), base_kind,
                                          entries, listing))} :
             ret' = [op |-> "scan_all",
                     raised |-> out.raised, value |-> out.frames]
    /\ UNCHANGED <<pattern, base_kind, entries, vr, vr_raised, prev, registry, registered, scanning, tree, sessionVars>>

\* scanner.get_frame_range()
CallGetFrameRange ==
    /\ ret = NoRet
    /\ ParsePattern(pattern).raised = None
    /\ \E listing \in Listings(entries) :
          \E out \in {GetFrameRange(DetectFrames(ParsePattern(pattern), base_kind,
                                                entries, listing))} :
             ret' = [op |-> "get_frame_range",
                     raised |-> out.raised, value |-> out.value]
    /\ UNCHANGED <<pattern, base_kind, entries, vr, vr_raised, prev, registry, registered, scanning, tree, sessionVars>>

\* SequenceValidator(config).validate(pattern)
CallValidate ==
    /\ ret = NoRet
    /\ \E cfg \in Configs : \E oiio \in BOOLEAN :
          \E out \in {Validate(pattern, cfg, registry, oiio,
                              base_kind, entries, SomeListing(entries),
                              base_kind, entries, SomeListing(entries))} :
             ret' = [op |-> "validate", config |-> cfg,
                     raised |-> out.raised, value |-> out.result]
    /\ UNCHANGED <<pattern, base_kind, entries, vr, vr_raised, prev, registry, registered, scanning, tree, sessionVars>>

Next ==
    \/ TakeResult
    \/ MkDir
    \/ MkBaseFile
    \/ RmBase
    \/ CreateEntry
    \/ RemoveEntry
    \/ CallNewScanner
    \/ CallDetectFrames
    \/ CallScanFrame
    \/ CallScanAll
    \/ CallGetFrameRange
    \/ CallValidate

Spec == Init /\ [][Next]_vars

(***************************************************************************)
(* A caller accumulating issues in its own ValidationResult                *)
(***************************************************************************)
Severities == ValidSeverities \cup {"critical"}

InitCaller ==
    /\ pattern = PatPrintf
    /\ InitFs
    /\ vr \in {NewResult(passed, [validator |-> "caller"]) : passed \in BOOLEAN}
    /\ vr_raised = FALSE

\* result.add_issue(severity, message)
CallAddIssue ==
    /\ Len(vr.issues) < MaxIssues
    /\ \E severity \in Severities :
          LET out == AddIssue(vr, severity, [fmt |-> "Test", n |-> 0, sample |-> <<>>],
                              <<>>, <<>>)
          IN  /\ vr' = out.result
              /\ vr_raised' = out.raised
    /\ UNCHANGED <<pattern, base_kind, entries, ret, prev, registry, registered, scanning, tree, sessionVars>>

NextCaller == CallAddIssue

SpecCaller == InitCaller /\ [][NextCaller]_vars

(***************************************************************************)
(* One scanner called again and again while the directory changes; the    *)
(* previous call is remembered                                             *)
(***************************************************************************)

\* the files created between the calls
RescanCreatable ==
    [NameS01 |-> {File("img_a")},
     NameS02 |-> {File("img_b"), File("garbage")},
     NameS1 |-> {File("img_a")},
     NameS14 |-> {File("img_a")}]

InitRescan ==
    /\ pattern = PatPrintf
    /\ InitFs
    /\ InitResult

\* a frame file is written into the directory between two calls
CreateFrameFile ==
    /\ ret = NoRet
    /\ base_kind = "dir"
    /\ Cardinality(DOMAIN entries) < MaxFiles
    /\ \E key \in DOMAIN RescanCreatable : \E e \in RescanCreatable[key] :
          /\ NameOf(key) \notin DOMAIN entries
          /\ entries' = [name \in DOMAIN entries \cup {NameOf(key)} |->
                            IF name = NameOf(key) THEN e ELSE entries[name]]
    /\ ret' = NoRet
    /\ UNCHANGED <<pattern, base_kind, vr, vr_raised, prev, registry, registered, scanning, tree, sessionVars>>

\* the caller takes the value the latest call returned and keeps it, with
\* the directory as it was at that call, for comparison with the next call
KeepResult ==
    /\ ret # NoRet
    /\ prev' = [call |-> ret, base_kind |-> base_kind, entries |-> entries]
    /\ ret' = NoRet
    /\ UNCHANGED <<pattern, base_kind, entries, vr, vr_raised, registry, registered, scanning, tree, sessionVars>>

NextRescan ==
    \/ MkDir
    \/ CreateFrameFile
    \/ RemoveEntry
    \/ CallDetectFrames
    \/ CallGetFrameRange
    \/ CallScanAll
    \/ KeepResult

SpecRescan == InitRescan /\ [][NextRescan]_vars

(***************************************************************************)
(* The end-to-end scenario: validate over a rendered shot from which       *)
(* frames are deleted                                                      *)
(***************************************************************************)

\* the directory holds every frame of the shot, all with the same image
InitShot ==
    /\ pattern = PatShot
    /\ base_kind = "dir"
    /\ entries = [name \in {ShotFile(n) : n \in ShotFrames} |-> File("img_a")]
    /\ ret = NoRet
    /\ prev = NoPrev
    /\ InitHandlers
    /\ InitRest
    /\ InitResult

NextShot ==
    \/ RemoveEntry
    \/ CallValidate
    \/ TakeResult

SpecShot == InitShot /\ [][NextShot]_vars

(***************************************************************************)
(* The format-handler registry: handlers are registered and looked up      *)
(***************************************************************************)
InitRegistry ==
    /\ pattern = PatPrintf
    /\ InitFs
    /\ InitResult

\* register_format_handler(handler)
CallRegisterFormatHandler ==
    /\ ret = NoRet
    /\ Len(registered) < MaxRegistered
    /\ \E handler \in CustomHandlers :
          /\ registry' = RegisterFormatHandler(registry, handler)
          /\ registered' = Append(registered, handler)
    /\ UNCHANGED <<pattern, base_kind, entries, ret, vr, vr_raised, prev, scanning, tree, sessionVars>>

\* get_format_handler(file_path)
CallGetFormatHandler ==
    /\ ret = NoRet
    /\ \E path \in ProbePaths :
          ret' = [op |-> "get_format_handler", arg |-> path,
                  value |-> GetFormatHandler(registry, path)]
    /\ UNCHANGED <<pattern, base_kind, entries, vr, vr_raised, prev, registry, registered, scanning, tree, sessionVars>>

NextRegistry ==
    \/ CallRegisterFormatHandler
    \/ CallGetFormatHandler
    \/ TakeResult

SpecRegistry == InitRegistry /\ [][NextRegistry]_vars

(***************************************************************************)
(* Vocabulary of the properties                                            *)
(***************************************************************************)

\* the scanner built from the pattern under test
Sc == ParsePattern(pattern)

ParseOk == Sc.raised = None

AllDigits(t) == \A i \in 1..Len(t) : t[i] \in Digits

\* name is exactly base_name, one run of digits, extension
ExactFrameName(sc, name) ==
    LET b == Len(sc.base_name)
        k == Len(name) - b - Len(sc.extension)
    IN  /\ k >= 1
        /\ AllDigits(SubSeq(name, b + 1, b + k))
        /\ name = sc.base_name \o SubSeq(name, b + 1, b + k) \o sc.extension

\* the frame number such a name spells
ExactFrameNumber(sc, name) ==
    StrToInt(SubSeq(name, Len(sc.base_name) + 1, Len(name) - Len(sc.extension)))

\* the regular files of the base directory that are named per the pattern
ExactFrameFiles ==
    {name \in DOMAIN entries :
        base_kind = "dir" /\ IsFile(entries, name) /\ ExactFrameName(Sc, name)}

\* the issues of a result that a given check emitted
IssuesOfKind(result, kind) ==
    {i \in 1..Len(result.issues) :
        /\ result.issues[i].details # <<>>
        /\ result.issues[i].details[1].kind = kind}

IsPrintfConstruct(t) ==
    /\ Len(t) >= 2
    /\ t[1] = "%"
    /\ t[Len(t)] = "d"
    /\ AllDigits(SubSeq(t, 2, Len(t) - 1))

IsHashConstruct(t) == Len(t) >= 1 /\ \A i \in 1..Len(t) : t[i] = "#"

IsRangeConstruct(t) ==
    /\ Len(t) >= 5
    /\ t[1] = "["
    /\ t[Len(t)] = "]"
    /\ \E dash \in 3..(Len(t) - 2) :
          /\ t[dash] = "-"
          /\ AllDigits(SubSeq(t, 2, dash - 1))
          /\ AllDigits(SubSeq(t, dash + 1, Len(t) - 1))

IsConstruct(kind, t) ==
    CASE kind = "printf" -> IsPrintfConstruct(t)
      [] kind = "hash" -> IsHashConstruct(t)
      [] kind = "range" -> IsRangeConstruct(t)

ConstructKinds == {"printf", "hash", "range"}

\* the offsets of a file name at which a construct of a kind starts
ConstructStarts(kind, fname) ==
    {i \in 1..Len(fname) :
        \E j \in i..Len(fname) : IsConstruct(kind, SubSeq(fname, i, j))}

\* the end of the longest construct of a kind starting at offset i
ConstructEnd(kind, fname, i) ==
    MaxOf({j \in i..Len(fname) : IsConstruct(kind, SubSeq(fname, i, j))})

(***************************************************************************)
(* C1                                                                      *)
(***************************************************************************)

\* C1: pass/fail latch.  Whenever the result holds an error issue, passed
\* is false, and no add_issue call takes passed from false back to true,
\* whatever severity it adds.
PassFailLatch ==
    [][ /\ HasErrors(vr') => ~vr'.passed
        /\ ~vr.passed => ~vr'.passed ]_vars

\* an error was added, later an info issue, and passed is still false
PassFailLatchWitness ==
    /\ Len(vr.issues) >= 2
    /\ vr.issues[1].severity = "error"
    /\ vr.issues[Len(vr.issues)].severity = "info"
    /\ ~vr.passed

(***************************************************************************)
(* C2                                                                      *)
(***************************************************************************)

\* C2 as stated: validate on a pattern without notation raises and returns
\* no result.
ValidateRaisesOnBadPattern ==
    (ret.op = "validate" /\ ~ParseOk) => ret.raised # None

\* C2 amended: validate on a pattern without notation does not raise; it
\* returns, whatever the directory holds, a result with passed = false and
\* exactly one issue, the error "Validation failed: ..." located at the
\* pattern, and no frame_count / frame_range metadata (nothing was scanned).
ValidateReportsBadPattern ==
    (ret.op = "validate" /\ ~ParseOk) =>
        /\ ret.raised = None
        /\ ~ret.value.passed
        /\ Len(ret.value.issues) = 1
        /\ ret.value.issues[1].severity = "error"
        /\ ret.value.issues[1].message.fmt = "Validation failed: {e}"
        /\ ret.value.issues[1].message.sample = <<"InvalidFormatError">>
        /\ ret.value.issues[1].location = <<pattern>>
        /\ ret.value.metadata.frame_count = <<>>
        /\ ret.value.metadata.frame_range = <<>>

\* validate returned for a pattern without notation over a directory that
\* holds frame-like files
ValidateReportsBadPatternWitness ==
    /\ ret.op = "validate"
    /\ ~ParseOk
    /\ NameS01 \in DOMAIN entries

(***************************************************************************)
(* C3                                                                      *)
(***************************************************************************)

\* the directory holds only regular files named as scan_frame renders
\* their numbers, one of them with non-image bytes, the others images
OneGarbageFrame(n) ==
    /\ ParseOk
    /\ base_kind = "dir"
    /\ FrameFileName(Sc, n) \in DOMAIN entries
    /\ entries[FrameFileName(Sc, n)] = File("garbage")
    /\ \A name \in DOMAIN entries :
          /\ IsFile(entries, name)
          /\ ExactFrameName(Sc, name)
          /\ name = FrameFileName(Sc, ExactFrameNumber(Sc, name))
          /\ name # FrameFileName(Sc, n) => entries[name].content \in ImageContents

\* C3: a file of non-image bytes at a frame position is scanned as
\* exists and not readable while image frames are readable, and validate
\* reports exactly one corruption error naming exactly that frame.
CorruptionIsolation ==
    /\ (ret.op = "scan_frame" /\ ret.value.exists
          /\ entries[ret.value.file_name] = File("garbage"))
       => ~ret.value.readable
    /\ (ret.op = "scan_frame" /\ ret.value.exists
          /\ IsFile(entries, ret.value.file_name)
          /\ entries[ret.value.file_name].content \in ImageContents)
       => ret.value.readable
    /\ \A n \in 0..MaxProbe :
          (ret.op = "validate" /\ OneGarbageFrame(n)) =>
              /\ ~ret.value.passed
              /\ Cardinality(IssuesOfKind(ret.value, "corrupted")) = 1
              /\ \A i \in IssuesOfKind(ret.value, "corrupted") :
                    /\ ret.value.issues[i].severity = "error"
                    /\ ret.value.issues[i].details[1].corrupted_frames = <<n>>

(***************************************************************************)
(* C4                                                                      *)
(***************************************************************************)

\* C4: every frame detect_frames reports comes from a regular file whose
\* whole name is base_name, one run of digits, extension.
AnchoredMatcher ==
    (ret.op = "detect_frames" /\ ~ret.raised) =>
        \A i \in 1..Len(ret.value) :
            \E name \in ExactFrameFiles :
                ExactFrameNumber(Sc, name) = ret.value[i]

(***************************************************************************)
(* C5                                                                      *)
(***************************************************************************)

\* C5: for every frame number detect_frames returns, the file name
\* scan_frame renders for it is a regular file of the base directory, so
\* scan_frame reports it as existing.
DetectFramesSound ==
    (ret.op = "detect_frames" /\ ~ret.raised) =>
        \A i \in 1..Len(ret.value) :
            /\ FrameFileName(Sc, ret.value[i]) \in DOMAIN entries
            /\ IsFile(entries, FrameFileName(Sc, ret.value[i]))
            /\ ScanFrame(Sc, base_kind, entries, BuiltinHandlers, FALSE,
                         ret.value[i]).info.exists

(***************************************************************************)
(* C6                                                                      *)
(***************************************************************************)

\* the pattern's file name holds constructs of more than one kind
SeveralConstructs ==
    Cardinality({kind \in ConstructKinds :
                    ConstructStarts(kind, PathName(pattern)) # {}}) > 1

\* C6 as stated: the construct starting at the lowest offset of the file
\* name is the one chosen; base_name / extension surround it.
LowestOffsetWins ==
    (ret.op = "new_scanner" /\ ret.scanner.raised = None) =>
        LET fname == PathName(pattern)
            first == MinOf(UNION {ConstructStarts(kind, fname) :
                                     kind \in ConstructKinds})
            kind == CHOOSE k \in ConstructKinds :
                        first \in ConstructStarts(k, fname)
        IN  /\ ret.scanner.pattern_type = kind
            /\ ret.scanner.base_name = SubSeq(fname, 1, first - 1)
            /\ ret.scanner.extension =
                   SubSeq(fname, ConstructEnd(kind, fname, first) + 1, Len(fname))

\* C6 amended: the kinds are tried in the order printf, hash, range and the
\* first kind with a construct anywhere in the file name is chosen, even
\* when a construct of a later kind starts at a lower offset; within the
\* chosen kind the leftmost construct is taken, and base_name / extension
\* are the text before / after it.
ProbeOrderWins ==
    (ret.op = "new_scanner" /\ ret.scanner.raised = None) =>
        LET fname == PathName(pattern)
            kind == IF ConstructStarts("printf", fname) # {} THEN "printf"
                    ELSE IF ConstructStarts("hash", fname) # {} THEN "hash"
                    ELSE "range"
            first == MinOf(ConstructStarts(kind, fname))
        IN  /\ ret.scanner.pattern_type = kind
            /\ ret.scanner.base_name = SubSeq(fname, 1, first - 1)
            /\ ret.scanner.extension =
                   SubSeq(fname, ConstructEnd(kind, fname, first) + 1, Len(fname))

\* a scanner was built from a file name in which a hash run starts before
\* the printf construct that is chosen
ProbeOrderWinsWitness ==
    /\ ret.op = "new_scanner"
    /\ ret.scanner.raised = None
    /\ SeveralConstructs
    /\ ret.scanner.pattern_type = "printf"
    /\ MinOf(ConstructStarts("hash", PathName(pattern)))
         < MinOf(ConstructStarts("printf", PathName(pattern)))

(***************************************************************************)
(* C7                                                                      *)
(***************************************************************************)

\* C7: readable is true only if the file exists and at least one byte was
\* read from it; a file of zero bytes is not readable.
ReadableMeansByteRead ==
    (ret.op = "scan_frame" /\ ret.value.readable) =>
        /\ ret.value.exists
        /\ OpenRead1(entries, ret.value.file_name).nbytes >= 1

(***************************************************************************)
(* C8                                                                      *)
(***************************************************************************)

\* C8: detect_frames returns exactly the frame numbers of the regular
\* files named per the pattern, in ascending order, whatever the
\* enumeration order; subdirectories and other files contribute nothing.
DetectFramesComplete ==
    (ret.op = "detect_frames" /\ base_kind = "dir") =>
        /\ ~ret.raised
        /\ ret.value = Sorted({ExactFrameNumber(Sc, name) : name \in ExactFrameFiles})

(***************************************************************************)
(* C9                                                                      *)
(***************************************************************************)

\* the metadata reader chosen for a file cannot decode it, or none is
\* registered for its extension
NoMetadataFor(name) ==
    \/ GetFormatHandler(BuiltinHandlers, name) = <<>>
    \/ /\ GetFormatHandler(BuiltinHandlers, name) = <<"standard">>
       /\ entries[name].content \notin ImageContents

\* C9: scan_frame never raises; a file that cannot be opened is reported
\* not readable, a missing file not existing, a failing or absent metadata
\* reader leaves resolution and bit depth absent; and scan_all over a
\* directory returns, without raising, one FrameInfo per detected frame.
ScanNeverRaises ==
    /\ ret.op = "scan_frame" =>
          /\ ~ret.raised
          /\ ret.value.frame_number = ret.arg
          /\ ret.value.exists = PathExists(base_kind, entries, ret.value.file_name)
          /\ ~ret.value.exists => ~ret.value.readable
          /\ (ret.value.exists /\ OpenRead1(entries, ret.value.file_name).raised)
                => ~ret.value.readable
          /\ (ret.value.readable /\ NoMetadataFor(ret.value.file_name))
                => ret.value.resolution = <<>> /\ ret.value.bit_depth = <<>>
    /\ (ret.op = "scan_all" /\ base_kind # "file") =>
          LET detected == DetectFrames(Sc, base_kind, entries, SomeListing(entries))
          IN  /\ ~ret.raised
              /\ Len(ret.value) = Len(detected.value)
              /\ \A i \in 1..Len(ret.value) :
                    ret.value[i].frame_number = detected.value[i]

\* scan_all returned a list holding a frame that could not be opened, a
\* frame the reader could not decode and a good frame
ScanNeverRaisesWitness ==
    /\ ret.op = "scan_all"
    /\ ~ret.raised
    /\ \E i, j, k \in 1..Len(ret.value) :
          /\ ret.value[i].exists /\ ~ret.value[i].readable
          /\ ret.value[j].readable /\ ret.value[j].resolution = <<>>
          /\ entries[ret.value[j].file_name].content = "garbage"
          /\ ret.value[k].resolution # <<>>

(***************************************************************************)
(* C10                                                                     *)
(***************************************************************************)

\* the base directory is missing, or exists and holds no regular file that
\* the scanner's matcher accepts
NoFrameFile ==
    \/ base_kind = "missing"
    \/ /\ base_kind = "dir"
       /\ \A name \in DOMAIN entries :
             ~(IsFile(entries, name) /\ FrameRegexMatch(Sc, name).found)

\* C10: over a missing base directory, and over a directory without a
\* matching file, detect_frames returns the empty list and get_frame_range
\* returns None, and neither raises.
EmptySequence ==
    (ret.op \in {"detect_frames", "get_frame_range"} /\ NoFrameFile) =>
        /\ ~ret.raised
        /\ ret.value = <<>>

\* get_frame_range returned over a missing directory
EmptySequenceWitness ==
    /\ ret.op = "get_frame_range"
    /\ base_kind = "missing"
    /\ ret.value = <<>>

(***************************************************************************)
(* C11                                                                     *)
(***************************************************************************)

\* the kinds of issue the four checks of validate emit
CheckKinds == {"missing", "corrupted", "resolution", "bit_depth"}

\* C11: validate on a well-formed pattern over a missing directory, or over
\* a directory without a matching file, does not raise and returns a result
\* with passed = true, exactly one issue, the warning "No frames found
\* matching pattern" located at the pattern, no frame_count / frame_range
\* metadata, and no issue of any of the four checks.
ZeroFramesIsOneWarning ==
    (ret.op = "validate" /\ ParseOk /\ NoFrameFile) =>
        /\ ret.raised = None
        /\ ret.value.passed
        /\ Len(ret.value.issues) = 1
        /\ ret.value.issues[1].severity = "warning"
        /\ ret.value.issues[1].message.fmt = "No frames found matching pattern"
        /\ ret.value.issues[1].location = <<pattern>>
        /\ ret.value.metadata.frame_count = <<>>
        /\ ret.value.metadata.frame_range = <<>>
        /\ \A kind \in CheckKinds : IssuesOfKind(ret.value, kind) = {}

\* validate returned over a directory that holds entries, none of them a
\* matching file
ZeroFramesIsOneWarningWitness ==
    /\ ret.op = "validate"
    /\ ParseOk
    /\ NoFrameFile
    /\ base_kind = "dir"
    /\ Cardinality(DOMAIN entries) >= 2

(***************************************************************************)
(* C12                                                                     *)
(***************************************************************************)

\* C12: add_issue with a severity outside {error, warning, info} raises
\* (ValueError) on every result a caller can hold, and a call that raised
\* left the result as it was: no issue appended, passed unchanged.
InvalidSeverityRejected ==
    /\ [](\A severity \in Severities \ ValidSeverities :
            LET out == AddIssue(vr, severity,
                                [fmt |-> "Test", n |-> 0, sample |-> <<>>],
                                <<>>, <<>>)
            IN  out.raised /\ out.result = vr)
    /\ [][vr_raised' => (vr'.issues = vr.issues /\ vr'.passed = vr.passed)]_vars

\* an add_issue call raised on a result that already held issues and had
\* passed = true
InvalidSeverityRejectedWitness ==
    /\ vr_raised
    /\ Len(vr.issues) >= 1
    /\ vr.passed

(***************************************************************************)
(* C13                                                                     *)
(***************************************************************************)

\* the text of a path after its last "/"
FinalSegment(p) ==
    SubSeq(p, MaxOf({i \in 1..Len(p) : p[i] = "/"} \cup {0}) + 1, Len(p))

\* the final path segment holds no printf, hash or range construct
NoConstructInFileName ==
    \A kind \in ConstructKinds : ConstructStarts(kind, FinalSegment(pattern)) = {}

\* C13: SequenceScanner(pattern) on a pattern whose final path segment
\* holds none of the three constructs raises InvalidFormatError, which
\* carries that segment and the three supported format names; a construct
\* in a parent directory name does not count.
NoConstructRaises ==
    (ret.op = "new_scanner" /\ NoConstructInFileName) =>
        /\ ret.scanner.raised = "InvalidFormatError"
        /\ ret.scanner.format = FinalSegment(pattern)
        /\ ret.scanner.supported_formats =
               <<"printf (%04d)", "hash (####)", "range ([1001-1100])">>

\* the scanner constructor raised for a pattern whose only construct is in
\* the directory part
NoConstructRaisesWitness ==
    /\ ret.op = "new_scanner"
    /\ ret.scanner.raised = "InvalidFormatError"
    /\ NoConstructInFileName
    /\ \E kind \in ConstructKinds : ConstructStarts(kind, pattern) # {}

(***************************************************************************)
(* C14                                                                     *)
(***************************************************************************)

\* the number of digits of the decimal representation of a natural number
RECURSIVE NumDigits(_)
NumDigits(n) == IF n < 10 THEN 1 ELSE 1 + NumDigits(n \div 10)

\* the frame field of a rendered file name: what stands between base_name
\* and extension
FrameField(sc, name) ==
    SubSeq(name, Len(sc.base_name) + 1, Len(name) - Len(sc.extension))

\* C14: for n >= 0 the file name scan_frame renders is base_name, frame
\* field, extension, where the frame field is the decimal string of n,
\* left-padded with "0" to padding characters when it is shorter than that
\* and left as it is (no leading zero, no truncation) otherwise.
PaddingRule ==
    (ret.op = "scan_frame" /\ ret.arg >= 0) =>
        LET name == ret.value.file_name
            field == FrameField(Sc, name)
        IN  /\ name = Sc.base_name \o field \o Sc.extension
            /\ AllDigits(field)
            /\ StrToInt(field) = ret.arg
            /\ Len(field) = MaxOf({Sc.padding, NumDigits(ret.arg)})

\* scan_frame rendered a number whose decimal string is longer than the
\* padding
PaddingRuleWitness ==
    /\ ret.op = "scan_frame"
    /\ Sc.padding = 2
    /\ ret.arg = 123
    /\ Len(FrameField(Sc, ret.value.file_name)) = 3

(***************************************************************************)
(* C15                                                                     *)
(***************************************************************************)

\* the regular files of the directory, as it is now, that the scanner's
\* matcher accepts
MatchedFiles ==
    {name \in DOMAIN entries :
        /\ base_kind = "dir"
        /\ IsFile(entries, name)
        /\ FrameRegexMatch(Sc, name).found}

\* the list l holds, in ascending order, one frame number per matched file
\* of the directory as it is now
IsFramesOfDirectory(l) ==
    /\ Len(l) = Cardinality(MatchedFiles)
    /\ \A i \in 1..(Len(l) - 1) : l[i] <= l[i + 1]
    /\ \A name \in MatchedFiles :
          LET n == StrToInt(FrameRegexMatch(Sc, name).group1)
          IN  Cardinality({i \in 1..Len(l) : l[i] = n})
                = Cardinality({other \in MatchedFiles :
                     StrToInt(FrameRegexMatch(Sc, other).group1) = n})

\* C15: whatever files were created or deleted since the previous call and
\* whatever that call returned, detect_frames returns the frames of the
\* files matched in the directory at the time of the call, get_frame_range
\* their first and last, and scan_all one FrameInfo for each of them.
RereadsDirectory ==
    /\ ret.op = "detect_frames" =>
          ~ret.raised /\ IsFramesOfDirectory(ret.value)
    /\ ret.op = "get_frame_range" =>
          /\ ~ret.raised
          /\ ret.value = <<>> <=> MatchedFiles = {}
          /\ ret.value # <<>> =>
                \E l \in {DetectFrames(Sc, base_kind, entries,
                                       SomeListing(entries)).value} :
                   /\ IsFramesOfDirectory(l)
                   /\ ret.value = << <<l[1], l[Len(l)]>> >>
    /\ ret.op = "scan_all" =>
          /\ ~ret.raised
          /\ IsFramesOfDirectory([i \in 1..Len(ret.value) |->
                                     ret.value[i].frame_number])

\* detect_frames returned a list after files were created and deleted
\* since the previous detect_frames call, whose list was another one
RereadsDirectoryWitness ==
    /\ ret.op = "detect_frames"
    /\ prev.call.op = "detect_frames"
    /\ prev.call.value # <<>>
    /\ ret.value # <<>>
    /\ \E i \in 1..Len(prev.call.value) :
          \A j \in 1..Len(ret.value) : ret.value[j] # prev.call.value[i]
    /\ \E j \in 1..Len(ret.value) :
          \A i \in 1..Len(prev.call.value) : ret.value[j] # prev.call.value[i]

(***************************************************************************)
(* C16                                                                     *)
(***************************************************************************)

\* C16: scan_all returns scan_frame(n) for every n of detect_frames(), in
\* the ascending order of detect_frames, whatever the enumeration order of
\* the directory; and a scan_all call over a directory that is as it was
\* at the previous scan_all call returns the same list, field for field.
ScanAllIdempotent ==
    /\ ret.op = "scan_all" =>
          /\ \A listing \in Listings(entries) :
                \E d \in {DetectFrames(Sc, base_kind, entries, listing).value} :
                   /\ Len(ret.value) = Len(d)
                   /\ \A i \in 1..Len(d) :
                         ret.value[i] = ScanFrame(Sc, base_kind, entries,
                                                  BuiltinHandlers, FALSE, d[i]).info
          /\ \A i \in 1..(Len(ret.value) - 1) :
                ret.value[i].frame_number <= ret.value[i + 1].frame_number
    /\ (/\ ret.op = "scan_all"
        /\ prev.call.op = "scan_all"
        /\ prev.base_kind = base_kind
        /\ prev.entries = entries)
       => ret.value = prev.call.value

\* scan_all returned several frames over a directory that is as it was at
\* the previous scan_all call
ScanAllIdempotentWitness ==
    /\ ret.op = "scan_all"
    /\ prev.call.op = "scan_all"
    /\ prev.base_kind = base_kind
    /\ prev.entries = entries
    /\ Len(ret.value) >= 2
    /\ \E i \in 1..Len(ret.value) : ~ret.value[i].exists

(***************************************************************************)
(* C17                                                                     *)
(***************************************************************************)

\* the frames validate scans in the directory as it is (for the file
\* formats of the model the reading does not depend on OpenImageIO)
ScannedFrames ==
    ScanAll(Sc, base_kind, entries, BuiltinHandlers, FALSE,
            DetectFrames(Sc, base_kind, entries, SomeListing(entries))).frames

\* the directory holds nothing but regular files named as scan_frame
\* renders their frame numbers
OnlyFrameFiles ==
    \A name \in DOMAIN entries :
        /\ IsFile(entries, name)
        /\ ExactFrameName(Sc, name)
        /\ name = FrameFileName(Sc, ExactFrameNumber(Sc, name))

\* validate returned after running its checks on at least one frame
ValidateChecked ==
    /\ ret.op = "validate"
    /\ ParseOk
    /\ base_kind = "dir"
    /\ ScannedFrames # <<>>

\* the values of a metadata field of the scanned frames that carry it, in
\* frame order
ValuesOf(field) ==
    LET with == SelectSeq(ScannedFrames, LAMBDA f : f[field] # <<>>)
    IN  [i \in 1..Len(with) |-> with[i][field][1]]

\* exactly one of the values differs from all the others, which agree
OneDiffers(vals) ==
    /\ Len(vals) >= 2
    /\ \E i \in 1..Len(vals) :
          /\ \A j \in 1..Len(vals) : j # i => vals[j] # vals[i]
          /\ \A j, k \in 1..Len(vals) : (j # i /\ k # i) => vals[j] = vals[k]

\* the values after the first that differ from the first
DifferFromFirst(vals) == {i \in 2..Len(vals) : vals[i] # vals[1]}

\* the switch of a check in the configuration validate was given: an
\* absent key means enabled
Enabled(key) == key \notin DOMAIN ret.config \/ ret.config[key]

\* a check emitted nothing when it is disabled or nothing differs from the
\* first value, and else one error whose mismatch_count is `count`
OneIssueCounting(kind, key, field, count) ==
    IF Enabled(key) /\ count > 0
    THEN /\ Cardinality(IssuesOfKind(ret.value, kind)) = 1
         /\ \A i \in IssuesOfKind(ret.value, kind) :
               /\ ret.value.issues[i].severity = "error"
               /\ ret.value.issues[i].details[1].mismatch_count = count
    ELSE IssuesOfKind(ret.value, kind) = {}

\* C17 as stated: a disabled check emits nothing; the enabled resolution
\* check, on the frames of a directory of properly named frame files of
\* which one has a resolution different from the others, emits one error
\* with mismatch_count = 1.
OneDifferingFrameCountsOne ==
    ValidateChecked =>
        /\ ~Enabled("check_resolution") => IssuesOfKind(ret.value, "resolution") = {}
        /\ ~Enabled("check_bit_depth") => IssuesOfKind(ret.value, "bit_depth") = {}
        /\ (OnlyFrameFiles /\ OneDiffers(ValuesOf("resolution"))) =>
              OneIssueCounting("resolution", "check_resolution", "resolution", 1)

\* C17 amended: a disabled check emits nothing, whatever the frames; an
\* enabled check (an absent key means enabled) emits one error when some
\* frame after the first one that carries the value differs from that
\* first frame, and mismatch_count is the number of such frames: 1 when
\* the one differing frame is not the first, and the number of all other
\* frames when it is the first.  Each switch acts on its own check only.
SwitchesGovernChecks ==
    ValidateChecked =>
        /\ OneIssueCounting("resolution", "check_resolution", "resolution",
               Cardinality(DifferFromFirst(ValuesOf("resolution"))))
        /\ OneIssueCounting("bit_depth", "check_bit_depth", "bit_depth",
               Cardinality(DifferFromFirst(ValuesOf("bit_depth"))))

\* validate returned, with the resolution check enabled by default and the
\* bit-depth check disabled, on three frames of which the first has another
\* resolution than the two others: mismatch_count is 2
SwitchesGovernChecksWitness ==
    /\ ValidateChecked
    /\ OnlyFrameFiles
    /\ DOMAIN ret.config = {"check_bit_depth"}
    /\ ~ret.config["check_bit_depth"]
    /\ Len(ValuesOf("resolution")) = 3
    /\ OneDiffers(ValuesOf("resolution"))
    /\ Cardinality(DifferFromFirst(ValuesOf("resolution"))) = 2
    /\ \E i \in IssuesOfKind(ret.value, "resolution") :
          ret.value.issues[i].details[1].mismatch_count = 2

(***************************************************************************)
(* C18                                                                     *)
(***************************************************************************)

\* the frame numbers of a list of frames
NumbersOf(frames) == {frames[i].frame_number : i \in 1..Len(frames)}

\* a number between the lowest and the highest of a set is absent from it
HasGap(numbers) ==
    \E n \in MinOf(numbers)..MaxOf(numbers) : n \notin numbers

\* the checks whose condition holds on the scanned frames: a frame number
\* between the lowest and the highest is absent; a frame exists and is not
\* readable; the check is enabled and a frame differs from the first
ChecksThatFire ==
    LET frames == ScannedFrames
    IN  {kind \in CheckKinds :
            CASE kind = "missing" -> HasGap(NumbersOf(frames))
              [] kind = "corrupted" ->
                   \E i \in 1..Len(frames) :
                       frames[i].exists /\ ~frames[i].readable
              [] kind = "resolution" ->
                   /\ Enabled("check_resolution")
                   /\ DifferFromFirst(ValuesOf("resolution")) # {}
              [] kind = "bit_depth" ->
                   /\ Enabled("check_bit_depth")
                   /\ DifferFromFirst(ValuesOf("bit_depth")) # {}}

\* C18: when validate scanned at least one frame, each of the four checks
\* contributes exactly one error issue if its condition holds on the
\* scanned frames and nothing otherwise, whatever the other checks found;
\* the result holds no other issue, so its error count is the number of
\* checks whose condition holds.
NoShortCircuit ==
    ValidateChecked =>
        LET firing == ChecksThatFire
        IN  /\ \A kind \in CheckKinds :
                  /\ Cardinality(IssuesOfKind(ret.value, kind))
                        = IF kind \in firing THEN 1 ELSE 0
                  /\ \A i \in IssuesOfKind(ret.value, kind) :
                        ret.value.issues[i].severity = "error"
            /\ Len(ret.value.issues) = Cardinality(firing)
            /\ ErrorCount(ret.value) = Cardinality(firing)
            /\ ret.value.passed <=> firing = {}

\* validate returned four errors, one of each check, for a sequence with a
\* gap, an unreadable frame, a resolution mismatch and a bit-depth mismatch
NoShortCircuitWitness ==
    /\ ValidateChecked
    /\ OnlyFrameFiles
    /\ ChecksThatFire = CheckKinds
    /\ ErrorCount(ret.value) = 4

(***************************************************************************)
(* C19                                                                     *)
(***************************************************************************)

\* t is the decimal string of the natural number n
IsDecimalOf(t, n) ==
    /\ AllDigits(t)
    /\ Len(t) = NumDigits(n)
    /\ StrToInt(t) = n

\* t is the text "lo-hi"
IsRangeText(t, lo, hi) ==
    \E k \in 1..Len(t) :
        /\ t[k] = "-"
        /\ IsDecimalOf(SubSeq(t, 1, k - 1), lo)
        /\ IsDecimalOf(SubSeq(t, k + 1, Len(t)), hi)

\* the frame numbers spelled by the matched files of the directory
MatchedNumbers ==
    {StrToInt(FrameRegexMatch(Sc, name).group1) : name \in MatchedFiles}

\* the directory of the scenario: frames 1001 to 1010 without 1003 and 1007
ShotWithTwoGaps ==
    /\ pattern = PatShot
    /\ base_kind = "dir"
    /\ DOMAIN entries = {ShotFile(n) : n \in ShotFrames \ {1003, 1007}}

\* C19: when validate finds at least one frame, metadata.frame_count is
\* the number of frames scanned (one per matched file) and
\* metadata.frame_range is the text "lo-hi" of the lowest and the highest
\* detected frame number; for the frames 1001 to 1010 without 1003 and 1007,
\* all alike, the result has passed = false, one error (the missing-frame
\* issue), frame_count 8 and frame_range "1001-1010".
EndToEndMetadata ==
    /\ ValidateChecked =>
          /\ ret.value.metadata.frame_count = <<Len(ScannedFrames)>>
          /\ ret.value.metadata.frame_count = <<Cardinality(MatchedFiles)>>
          /\ Len(ret.value.metadata.frame_range) = 1
          /\ IsRangeText(ret.value.metadata.frame_range[1],
                         MinOf(MatchedNumbers), MaxOf(MatchedNumbers))
    /\ (ret.op = "validate" /\ ShotWithTwoGaps) =>
          /\ ~ret.value.passed
          /\ ErrorCount(ret.value) = 1
          /\ Len(ret.value.issues) = 1
          /\ Cardinality(IssuesOfKind(ret.value, "missing")) = 1
          /\ ret.value.issues[1].details[1].missing_frames = <<1003, 1007>>
          /\ ret.value.metadata.frame_count = <<8>>
          /\ ret.value.metadata.frame_range =
                << <<"1", "0", "0", "1", "-", "1", "0", "1", "0">> >>

\* validate returned over the frames 1001 to 1010 without 1003 and 1007
EndToEndMetadataWitness ==
    /\ ret.op = "validate"
    /\ ShotWithTwoGaps
    /\ ret.value.metadata.frame_count = <<8>>

(***************************************************************************)
(* C20                                                                     *)
(***************************************************************************)

\* C20: after any sequence of register_format_handler calls,
\* get_format_handler(path) returns the most recently registered handler
\* that can handle the path; when no registered handler can, the first of
\* the built-in handlers EXR, DPX, standard that can; and None when no
\* handler can.
RegistryPriority ==
    ret.op = "get_format_handler" =>
        LET accepting == {i \in 1..Len(registered) :
                             CanHandle(registered[i], ret.arg)}
            builtin == <<"exr", "dpx", "standard">>
            fallback == {i \in 1..Len(builtin) : CanHandle(builtin[i], ret.arg)}
        IN  ret.value = IF accepting # {} THEN <<registered[MaxOf(accepting)]>>
                        ELSE IF fallback # {} THEN <<builtin[MinOf(fallback)]>>
                        ELSE <<>>

\* get_format_handler returned the later of two different registered
\* handlers that both can handle the path
RegistryPriorityWitness ==
    /\ ret.op = "get_format_handler"
    /\ \E i, j \in 1..Len(registered) :
          /\ i < j
          /\ registered[i] # registered[j]
          /\ CanHandle(registered[i], ret.arg)
          /\ CanHandle(registered[j], ret.arg)
          /\ \A k \in (j + 1)..Len(registered) : ~CanHandle(registered[k], ret.arg)
          /\ ret.value = <<registered[j]>>

(***************************************************************************)
(* The checks of SequenceValidator called directly on FrameInfo lists the  *)
(* caller builds itself, as the tests of the validator do                  *)
(***************************************************************************)
MaxChecked == 3    \* length of the mixed FrameInfo lists given to one check

\* the frame numbers of the mixed lists: neighbours and a distant frame
CheckNumbers == {1, 2, 14}

\* resolutions that differ from the first in the height only and in the
\* width only
CheckResolutions == {<<1920, 1080>>, <<1920, 720>>, <<1280, 1080>>}

\* FrameInfo(frame_number=n, file_path=..., exists=..., readable=...,
\*           resolution=...)
MakeFrame(n, exists, readable, resolution) ==
    [frame_number |-> n,
     file_name |-> FrameFileName(ParsePattern(PatPrintf), n),
     exists |-> exists,
     readable |-> readable,
     resolution |-> resolution,
     bit_depth |-> IF resolution = <<>> THEN <<>> ELSE <<8>>,
     format |-> <<<<"p", "n", "g">>>>]

\* the frames of the mixed lists: absent, unreadable, readable without
\* metadata, readable with a resolution
CheckFrames ==
    {MakeFrame(n, FALSE, FALSE, <<>>) : n \in CheckNumbers}
    \cup {MakeFrame(n, TRUE, FALSE, <<>>) : n \in CheckNumbers}
    \cup {MakeFrame(n, TRUE, TRUE, <<>>) : n \in CheckNumbers}
    \cup {MakeFrame(n, TRUE, TRUE, <<r>>) : n \in CheckNumbers, r \in CheckResolutions}

\* the mixed lists: any frames in any order, repeated numbers included
MixedLists == UNION {[1..k -> CheckFrames] : k \in 0..MaxChecked}

\* the long lists: frames 1, 2, ... all readable, each with one of two
\* resolutions or none, long enough for more mismatches than the message
\* shows
LongLists ==
    LET len == MismatchSampleLimit + 2
        choices == [1..len -> {<<>>, <<<<1920, 1080>>>>, <<<<1280, 1080>>>>}]
    IN  {[i \in 1..len |-> MakeFrame(i, TRUE, TRUE, c[i])] : c \in choices}

CheckLists == MixedLists \cup LongLists

\* the results handed to a check: a fresh one, and one that already holds
\* an error
PriorResults ==
    {NewResult(TRUE, [validator |-> "caller"]),
     AddIssue(NewResult(TRUE, [validator |-> "caller"]), "error",
              [fmt |-> "Test", n |-> 0, sample |-> <<>>], <<>>, <<>>).result}

InitChecks ==
    /\ pattern = PatPrintf
    /\ InitFs
    /\ InitResult

\* validator.check_missing_frames(frames, result)
CallCheckMissingFrames ==
    /\ ret = NoRet
    /\ \E frames \in CheckLists : \E result \in PriorResults :
          \E out \in {CheckMissingFrames(frames, result)} :
             ret' = [op |-> "check_missing_frames", frames |-> frames,
                     before |-> result, value |-> out]
    /\ UNCHANGED <<pattern, base_kind, entries, vr, vr_raised, prev, registry, registered, scanning, tree, sessionVars>>

\* validator.check_corrupted_frames(frames, result)
CallCheckCorruptedFrames ==
    /\ ret = NoRet
    /\ \E frames \in CheckLists : \E result \in PriorResults :
          \E out \in {CheckCorruptedFrames(frames, result)} :
             ret' = [op |-> "check_corrupted_frames", frames |-> frames,
                     before |-> result, value |-> out]
    /\ UNCHANGED <<pattern, base_kind, entries, vr, vr_raised, prev, registry, registered, scanning, tree, sessionVars>>

\* validator.check_resolution_consistency(frames, result)
CallCheckResolutionConsistency ==
    /\ ret = NoRet
    /\ \E frames \in CheckLists : \E result \in PriorResults :
          \E out \in {CheckResolutionConsistency(frames, result)} :
             ret' = [op |-> "check_resolution_consistency", frames |-> frames,
                     before |-> result, value |-> out]
    /\ UNCHANGED <<pattern, base_kind, entries, vr, vr_raised, prev, registry, registered, scanning, tree, sessionVars>>

NextChecks ==
    \/ CallCheckMissingFrames
    \/ CallCheckCorruptedFrames
    \/ CallCheckResolutionConsistency
    \/ TakeResult

SpecChecks == InitChecks /\ [][NextChecks]_vars

(***************************************************************************)
(* C22  The missing-frame check                                            *)
(***************************************************************************)

\* the issues the latest check appended to the result it was given
AddedIssues ==
    SubSeq(ret.value.issues, Len(ret.before.issues) + 1, Len(ret.value.issues))

\* the latest check left what the result held before as it was
KeepsEarlierIssues ==
    /\ Len(ret.value.issues) >= Len(ret.before.issues)
    /\ SubSeq(ret.value.issues, 1, Len(ret.before.issues)) = ret.before.issues
    /\ ret.value.metadata = ret.before.metadata

IsAscending(s) == \A i, j \in 1..Len(s) : i < j => s[i] < s[j]

ElementsOf(s) == {s[i] : i \in 1..Len(s)}

\* the frame numbers of the list the latest check was given
GivenNumbers == {ret.frames[i].frame_number : i \in 1..Len(ret.frames)}

\* the numbers between the lowest and the highest given frame that no
\* given frame carries
GivenMissing == (MinOf(GivenNumbers)..MaxOf(GivenNumbers)) \ GivenNumbers

\* C22: for a non-empty frame list, check_missing_frames appends exactly
\* one error issue when some number between the lowest and the highest
\* frame number is absent from the list, and nothing otherwise.  The
\* details of the issue carry the absent numbers in ascending order, all of
\* them even when there are more than 10, their count, the range text
\* "lo-hi" and the number of distinct frame numbers given; the message
\* shows all absent numbers when there are at most 10 and the first 10 of
\* them when there are more.
MissingFrameCheck ==
    (ret.op = "check_missing_frames" /\ ret.frames # <<>>) =>
        LET missing == GivenMissing
            added == AddedIssues
        IN  /\ KeepsEarlierIssues
            /\ Len(added) = IF missing # {} THEN 1 ELSE 0
            /\ missing # {} =>
                 LET issue == added[1]
                     d == issue.details[1]
                 IN  /\ issue.severity = "error"
                     /\ IsAscending(d.missing_frames)
                     /\ ElementsOf(d.missing_frames) = missing
                     /\ d.missing_count = Cardinality(missing)
                     /\ IsRangeText(d.expected_range, MinOf(GivenNumbers),
                                    MaxOf(GivenNumbers))
                     /\ d.found_count = Cardinality(GivenNumbers)
                     /\ IF Cardinality(missing) <= 10
                        THEN /\ issue.message.fmt = "Missing frames: {missing_frames}"
                             /\ issue.message.sample = d.missing_frames
                        ELSE /\ issue.message.fmt
                                   = "{n} frames missing. Sample: {sample}"
                             /\ issue.message.n = Cardinality(missing)
                             /\ issue.message.sample = SubSeq(d.missing_frames, 1, 10)

\* the check was given frame 14 before frame 1, frame 1 twice: the twelve
\* numbers between them are all in the details and the first ten in the
\* message
MissingFrameCheckWitness ==
    /\ ret.op = "check_missing_frames"
    /\ Len(ret.frames) = 3
    /\ ret.frames[1].frame_number = 14
    /\ ret.frames[2].frame_number = 1
    /\ ret.frames[3].frame_number = 1
    /\ Len(AddedIssues) = 1
    /\ Len(AddedIssues[1].details[1].missing_frames) = 12
    /\ Len(AddedIssues[1].message.sample) = 10
    /\ AddedIssues[1].details[1].found_count = 2

(***************************************************************************)
(* C23  The resolution consistency check                                   *)
(***************************************************************************)

\* the positions of the given list whose frame carries a resolution
WithResolution == {i \in 1..Len(ret.frames) : ret.frames[i].resolution # <<>>}

\* the positions after the first resolution-carrying frame whose
\* resolution is another pair than that of the first
ResolutionMismatchAt ==
    {i \in WithResolution :
        /\ i > MinOf(WithResolution)
        /\ \/ ret.frames[i].resolution[1][1]
                 # ret.frames[MinOf(WithResolution)].resolution[1][1]
           \/ ret.frames[i].resolution[1][2]
                 # ret.frames[MinOf(WithResolution)].resolution[1][2]}

\* the k-th smallest element of a set of numbers
KthOf(S, k) == CHOOSE x \in S : Cardinality({y \in S : y < x}) = k - 1

\* C23: check_resolution_consistency takes the first frame of the list
\* that carries a resolution as the reference and records every later
\* resolution-carrying frame that differs from it in width or height as
\* {frame, expected = reference, actual}, in list order.  It appends exactly
\* one error issue when there is at least one such frame and nothing
\* otherwise; the details carry all records, their count and the
\* reference.  Frames without a resolution are skipped.  The message shows
\* the first 5 records when there are more than 5 and all of them
\* otherwise.
ResolutionCheck ==
    ret.op = "check_resolution_consistency" =>
        LET at == ResolutionMismatchAt
            added == AddedIssues
        IN  /\ KeepsEarlierIssues
            /\ Len(added) = IF at # {} THEN 1 ELSE 0
            /\ at # {} =>
                 LET issue == added[1]
                     d == issue.details[1]
                     reference == ret.frames[MinOf(WithResolution)].resolution[1]
                 IN  /\ issue.severity = "error"
                     /\ d.reference_resolution = reference
                     /\ d.mismatch_count = Cardinality(at)
                     /\ Len(d.mismatches) = Cardinality(at)
                     /\ \A k \in 1..Len(d.mismatches) :
                           d.mismatches[k]
                             = [frame |-> ret.frames[KthOf(at, k)].frame_number,
                                expected |-> reference,
                                actual |-> ret.frames[KthOf(at, k)].resolution[1]]
                     /\ IF Cardinality(at) > 5
                        THEN /\ issue.message.fmt
                                  = "Resolution mismatch in {n} frames. Sample: {sample}"
                             /\ issue.message.n = Cardinality(at)
                             /\ issue.message.sample = SubSeq(d.mismatches, 1, 5)
                        ELSE /\ issue.message.fmt
                                  = "Resolution mismatch detected: {mismatches}"
                             /\ issue.message.sample = d.mismatches

\* seven frames with a resolution, the six later ones all differing from
\* the first: six records in the details, five in the message
ResolutionCheckWitness ==
    /\ ret.op = "check_resolution_consistency"
    /\ Len(ret.frames) = 7
    /\ Cardinality(WithResolution) = 7
    /\ Cardinality(ResolutionMismatchAt) = 6
    /\ Len(AddedIssues) = 1
    /\ Len(AddedIssues[1].details[1].mismatches) = 6
    /\ Len(AddedIssues[1].message.sample) = 5
    /\ AddedIssues[1].details[1].reference_resolution = <<1920, 1080>>

(***************************************************************************)
(* C24  The corruption check                                               *)
(***************************************************************************)

\* the positions of the given list whose frame exists and is not readable
CorruptedAt ==
    {i \in 1..Len(ret.frames) :
        ret.frames[i].exists = TRUE /\ ret.frames[i].readable = FALSE}

\* C24: check_corrupted_frames reports exactly the frames that exist and
\* are not readable.  It appends exactly one error issue when there is such
\* a frame and nothing otherwise (nothing for an empty list); the details
\* carry the frame numbers of those frames in the order of the list and
\* their count.  A frame that does not exist is never among them.
CorruptionCheck ==
    ret.op = "check_corrupted_frames" =>
        LET at == CorruptedAt
            added == AddedIssues
        IN  /\ KeepsEarlierIssues
            /\ Len(added) = IF at # {} THEN 1 ELSE 0
            /\ ret.frames = <<>> => ret.value = ret.before
            /\ at # {} =>
                 LET issue == added[1]
                     d == issue.details[1]
                 IN  /\ issue.severity = "error"
                     /\ d.corrupted_count = Cardinality(at)
                     /\ Len(d.corrupted_frames) = Cardinality(at)
                     /\ \A k \in 1..Len(d.corrupted_frames) :
                           /\ d.corrupted_frames[k]
                                 = ret.frames[KthOf(at, k)].frame_number
                           /\ ret.frames[KthOf(at, k)].exists

\* an absent frame 2, then the unreadable frames 14 and 1: the details
\* list 14 and 1, in that order, and not 2
CorruptionCheckWitness ==
    /\ ret.op = "check_corrupted_frames"
    /\ Len(ret.frames) = 3
    /\ ret.frames[1].frame_number = 2
    /\ ~ret.frames[1].exists
    /\ CorruptedAt = {2, 3}
    /\ Len(AddedIssues) = 1
    /\ AddedIssues[1].details[1].corrupted_frames = <<14, 1>>
    /\ AddedIssues[1].details[1].corrupted_count = 2

(***************************************************************************)
(* C25  Well-formed FrameInfo                                              *)
(***************************************************************************)

\* the FrameInfo objects the latest scan_frame or scan_all call returned
ReturnedFrames ==
    IF ret.op = "scan_frame" /\ ~ret.raised THEN {ret.value}
    ELSE IF ret.op = "scan_all" /\ ~ret.raised THEN ElementsOf(ret.value)
    ELSE {}

\* C25: in every FrameInfo scan_frame returns, directly or through
\* scan_all, readable implies exists and a present resolution or bit depth
\* implies readable; a frame whose file is not in the directory has
\* exists = false, readable = false and neither resolution nor bit depth.
WellFormedFrameInfo ==
    \A info \in ReturnedFrames :
        /\ info.readable => info.exists
        /\ (info.resolution # <<>> \/ info.bit_depth # <<>>) => info.readable
        /\ ~PathExists(base_kind, entries, info.file_name) =>
              /\ info.exists = FALSE
              /\ info.readable = FALSE
              /\ info.resolution = <<>>
              /\ info.bit_depth = <<>>

\* scan_all returned a frame whose file is absent next to an unreadable
\* frame and a frame with its metadata
WellFormedFrameInfoWitness ==
    /\ ret.op = "scan_all"
    /\ \E i, j, k \in 1..Len(ret.value) :
          /\ ~ret.value[i].exists
          /\ ~PathExists(base_kind, entries, ret.value[i].file_name)
          /\ ret.value[j].exists /\ ~ret.value[j].readable
          /\ ret.value[k].readable /\ ret.value[k].resolution # <<>>
                /\ ret.value[k].bit_depth # <<>>

(***************************************************************************)
(* C27  Every gap is reported                                              *)
(***************************************************************************)

\* every entry of the directory is a regular file named base name, digits,
\* extension and nothing else
OnlyExactNames ==
    \A name \in DOMAIN entries :
        IsFile(entries, name) /\ ExactFrameName(Sc, name)

\* the frame numbers the missing-frame issues of the returned result list
ReportedMissing ==
    UNION {ElementsOf(ret.value.issues[i].details[1].missing_frames) :
              i \in IssuesOfKind(ret.value, "missing")}

\* C27: when validate returns after its checks, every number between the
\* lowest and the highest detected frame number whose rendered frame file
\* is not in the directory is listed in the missing_frames of the
\* missing-frame issue.  (Stated here for directories that hold only files
\* named base name + digits + extension.)
EveryGapReported ==
    (ValidateChecked /\ OnlyExactNames) =>
        \A n \in MinOf(MatchedNumbers)..MaxOf(MatchedNumbers) :
            ~PathExists(base_kind, entries, FrameFileName(Sc, n)) =>
                n \in ReportedMissing

(***************************************************************************)
(* C28  detect_frames returns no frame number twice                        *)
(***************************************************************************)

\* C28: the list detect_frames returns is strictly increasing, and when
\* validate reports missing frames its metadata.frame_count equals the
\* found_count of the missing-frame issue.  (Stated here for directories
\* that hold only files named base name + digits + extension.)
DetectFramesStrictlyIncreasing ==
    /\ (ret.op = "detect_frames" /\ ~ret.raised /\ OnlyExactNames) =>
          IsAscending(ret.value)
    /\ (ValidateChecked /\ OnlyExactNames) =>
          \A i \in IssuesOfKind(ret.value, "missing") :
              ret.value.metadata.frame_count
                 = <<ret.value.issues[i].details[1].found_count>>

(***************************************************************************)
(* validate running while another process writes and deletes frame files:  *)
(* the directory may change between the scan_all() and the                 *)
(* get_frame_range() of one call                                           *)
(***************************************************************************)
InitConcurrent ==
    /\ pattern = PatPrintf
    /\ InitFs
    /\ InitResult

\* validate up to and including frames = scanner.scan_all(): the first
\* reading of the directory
ValidateScanAll ==
    /\ ret = NoRet
    /\ scanning = NoScan
    /\ \E cfg \in Configs : \E oiio \in BOOLEAN :
          \E out \in {ScanAll(ParsePattern(pattern), base_kind, entries,
                             registry, oiio,
                             DetectFrames(ParsePattern(pattern), base_kind,
                                          entries, SomeListing(entries)))} :
             scanning' = [op |-> "validate", config |-> cfg, scanned |-> out]
    /\ UNCHANGED <<pattern, base_kind, entries, ret, vr, vr_raised, prev, registry, registered, tree, sessionVars>>

\* the rest of validate: the second reading of the directory by
\* scanner.get_frame_range(), the metadata, the checks and the return
ValidateFinish ==
    /\ ret = NoRet
    /\ scanning # NoScan
    /\ \E out \in {ValidateExcept(pattern,
                      ValidateSteps(pattern, scanning.config,
                          ParsePattern(pattern), scanning.scanned,
                          GetFrameRange(DetectFrames(ParsePattern(pattern),
                              base_kind, entries, SomeListing(entries)))))} :
          ret' = [op |-> "validate", config |-> scanning.config,
                  raised |-> out.raised, value |-> out.result,
                  frames |-> scanning.scanned.frames]
    /\ scanning' = NoScan
    /\ UNCHANGED <<pattern, base_kind, entries, vr, vr_raised, prev, registry, registered, tree, sessionVars>>

NextConcurrent ==
    \/ MkDir
    \/ CreateFrameFile
    \/ RemoveEntry
    \/ ValidateScanAll
    \/ ValidateFinish
    \/ TakeResult

SpecConcurrent == InitConcurrent /\ [][NextConcurrent]_vars

(***************************************************************************)
(* C29  One validate call describes one directory state                    *)
(***************************************************************************)

\* C29: also when files are created or deleted while validate runs, the
\* result it returns after its checks has metadata.frame_count equal to
\* the length of the scanned list the checks worked on and
\* metadata.frame_range equal to the text "lo-hi" of the lowest and the
\* highest frame number of that list, the same text as the expected_range
\* of a missing-frame issue.
OneDirectoryState ==
    (ret.op = "validate" /\ ret.frames # <<>>) =>
        /\ ret.value.metadata.frame_count = <<Len(ret.frames)>>
        /\ Len(ret.value.metadata.frame_range) = 1
        /\ IsRangeText(ret.value.metadata.frame_range[1],
                       MinOf(NumbersOf(ret.frames)), MaxOf(NumbersOf(ret.frames)))
        /\ \A i \in IssuesOfKind(ret.value, "missing") :
              ret.value.metadata.frame_range
                 = <<ret.value.issues[i].details[1].expected_range>>

(***************************************************************************)
(* ShotLint: shotlint/validator.py, shotlint/engine.py, shotlint/rules.py  *)
(* and shotlint/plugins.py.  A rule is a function from its keys to their   *)
(* values; rule.get(key) of an absent key is None.                         *)
(***************************************************************************)
MaxRules == 2      \* rules in the rules file given to ShotLint

\* rule.get(key, default)
RuleGet(rule, key, default) == IF key \in DOMAIN rule THEN rule[key] ELSE default

\* ValidationIssue(severity=..., message=..., location=..., details=...)
LintIssue(severity, message, location, details) ==
    [severity |-> severity, message |-> message, location |-> location,
     details |-> details]

\* the regular expressions of the rules: a literal character, \d{n}, or an
\* expression re.compile() rejects
Lit(c) == [kind |-> "lit", c |-> c, n |-> 0]

DigitsRe(n) == [kind |-> "digits", c |-> "", n |-> n]

InvalidRe == [kind |-> "invalid", c |-> "", n |-> 0]

\* PathPatternRule._render_pattern: the pattern is escaped and every
\* "{key}" of a declared variable is replaced by the variable's expression
RECURSIVE RenderPattern(_, _, _)
RenderPattern(pat, vars_dict, i) ==
    IF i > Len(pat) THEN <<>>
    ELSE LET keys == {key \in DOMAIN vars_dict :
                         OccursAt(pat, <<"{">> \o key \o <<"}">>, i)}
         IN  IF keys # {}
             THEN LET key == CHOOSE k \in keys : TRUE
                  IN  <<vars_dict[key]>>
                         \o RenderPattern(pat, vars_dict, i + Len(key) + 2)
             ELSE <<Lit(pat[i])>> \o RenderPattern(pat, vars_dict, i + 1)

\* re.compile() of a rendered expression raises re.error
CompileFails(tokens) == \E t \in 1..Len(tokens) : tokens[t].kind = "invalid"

\* regex.match(s) from token t and position i on; with dollar the match
\* must end where s ends
RECURSIVE ReMatch(_, _, _, _, _)
ReMatch(tokens, t, s, i, dollar) ==
    IF t > Len(tokens) THEN (dollar => i = Len(s) + 1)
    ELSE IF tokens[t].kind = "lit"
    THEN /\ i <= Len(s)
         /\ s[i] = tokens[t].c
         /\ ReMatch(tokens, t + 1, s, i + 1, dollar)
    ELSE /\ i + tokens[t].n - 1 <= Len(s)
         /\ \A j \in i..(i + tokens[t].n - 1) : s[j] \in Digits
         /\ ReMatch(tokens, t + 1, s, i + tokens[t].n, dollar)

\* PathPatternRule.check(root, rule)
PathPatternCheck(tr, rule) ==
    LET pat == RuleGet(rule, "pattern", <<>>)
        vars_dict == RuleGet(rule, "vars", [key \in {} |-> InvalidRe])
        rule_name == RuleGet(rule, "name", "path_pattern")
    IN  IF pat = <<>>
        THEN [raised |-> FALSE,
              issues |-> <<LintIssue("error",
                                     "path_pattern rule missing 'pattern' field",
                                     <<rule_name>>, <<>>)>>]
        ELSE LET regex_pattern == RenderPattern(pat, vars_dict, 1)
             IN  IF CompileFails(regex_pattern)
                 THEN [raised |-> TRUE, issues |-> <<>>]
                 ELSE IF \E dirpath \in DOMAIN tr :
                            /\ tr[dirpath] = "dir"
                            /\ ReMatch(regex_pattern, 1, dirpath, 1, TRUE)
                 THEN [raised |-> FALSE, issues |-> <<>>]
                 ELSE [raised |-> FALSE,
                       issues |-> <<LintIssue("warning",
                                              "No path matched pattern '{pattern}'",
                                              <<"root">>,
                                              <<[pattern |-> pat]>>)>>]

\* FilenameRegexRule.check(root, rule)
FilenameRegexCheck(tr, rule) ==
    LET rule_name == RuleGet(rule, "name", "filename_regex")
    IN  IF "regex" \notin DOMAIN rule
        THEN [raised |-> FALSE,
              issues |-> <<LintIssue("error",
                                     "filename_regex rule missing 'regex' field",
                                     <<rule_name>>, <<>>)>>]
        ELSE IF CompileFails(rule.regex.tokens)
        THEN [raised |-> FALSE,
              issues |-> <<LintIssue("error", "Invalid regex pattern: {e}",
                                     <<rule_name>>, <<[regex |-> rule.regex]>>)>>]
        ELSE IF \E filepath \in DOMAIN tr :
                   /\ tr[filepath] = "file"
                   /\ ReMatch(rule.regex.tokens, 1, PathName(filepath), 1,
                              rule.regex.dollar)
        THEN [raised |-> FALSE, issues |-> <<>>]
        ELSE [raised |-> FALSE,
              issues |-> <<LintIssue("warning", "No filenames matched the regex",
                                     <<"root">>, <<[regex |-> rule.regex]>>)>>]

\* filename.startswith(prefix)
StartsWith(s, prefix) == OccursAt(s, prefix, 1)

\* filename.endswith(suffix)
EndsWith(s, suffix) ==
    Len(suffix) <= Len(s) /\ OccursAt(s, suffix, Len(s) - Len(suffix) + 1)

\* filename[len(base) + 1: -len(ext)]; a stop of -0 is the start of the
\* string
FramePart(filename, base, ext) ==
    IF ext = <<>> THEN <<>>
    ELSE SubSeq(filename, Len(base) + 2, Len(filename) - Len(ext))

\* the entries directly inside a folder of the tree: folder.iterdir()
ChildrenOf(tr, folder) ==
    {p \in DOMAIN tr : LastSlash(p) = Len(folder) + 1 /\ StartsWith(p, folder)}

\* FrameSequenceRule.check(root, rule)
FrameSequenceCheck(tr, rule) ==
    LET rule_name == RuleGet(rule, "name", "frame_sequence")
        folder_rel == RuleGet(rule, "folder", <<>>)
        base == RuleGet(rule, "base", <<>>)
        ext == RuleGet(rule, "ext", <<".", "e", "x", "r">>)
    IN  IF folder_rel = <<>> \/ base = <<>> \/ "start" \notin DOMAIN rule
           \/ "end" \notin DOMAIN rule
        THEN [raised |-> FALSE,
              issues |-> <<LintIssue("error",
                  "frame_sequence rule missing required fields (folder, base, start, end)",
                  <<rule_name>>, <<>>)>>]
        ELSE IF folder_rel \notin DOMAIN tr
        THEN [raised |-> FALSE,
              issues |-> <<LintIssue("error", "Folder missing: {folder_rel}",
                                     <<folder_rel>>,
                                     <<[expected_folder |-> folder_rel]>>)>>]
        ELSE IF tr[folder_rel] # "dir"
        THEN [raised |-> FALSE,
              issues |-> <<LintIssue("error", "Path is not a directory: {folder_rel}",
                                     <<folder_rel>>, <<>>)>>]
        ELSE LET parts == {FramePart(PathName(p), base, ext) :
                              p \in {q \in ChildrenOf(tr, folder_rel) :
                                        /\ tr[q] = "file"
                                        /\ StartsWith(PathName(q), base)
                                        /\ EndsWith(PathName(q), ext)}}
                 present_frames == {StrToInt(part) :
                                       part \in {x \in parts :
                                                    x # <<>> /\ AllDigits(x)}}
                 missing_frames == Sorted((rule.start..rule.end) \ present_frames)
             IN  IF missing_frames # <<>>
                 THEN [raised |-> FALSE,
                       issues |-> <<LintIssue("error",
                           IF Len(missing_frames) > MissingSampleLimit
                           THEN "{n} frames missing. Sample: {sample}"
                           ELSE "Missing frames: {missing_frames}",
                           <<folder_rel>>,
                           <<[missing_count |-> Len(missing_frames),
                              missing_frames |-> missing_frames,
                              expected_range |-> RangeText(rule.start, rule.end),
                              found_count |-> Cardinality(present_frames)]>>)>>]
                 ELSE [raised |-> FALSE, issues |-> <<>>]

\* glob.glob(root / pattern) on one path: "*" stands for any run of
\* characters inside one path segment, every other character for itself
RECURSIVE GlobMatch(_, _, _, _)
GlobMatch(g, i, s, j) ==
    IF i > Len(g) THEN j > Len(s)
    ELSE IF g[i] = "*"
    THEN \/ GlobMatch(g, i + 1, s, j)
         \/ /\ j <= Len(s)
            /\ s[j] # "/"
            /\ GlobMatch(g, i, s, j + 1)
    ELSE /\ j <= Len(s)
         /\ s[j] = g[i]
         /\ GlobMatch(g, i + 1, s, j + 1)

\* MustExistRule.check(root, rule)
MustExistCheck(tr, rule) ==
    LET glob_pattern == RuleGet(rule, "glob", <<>>)
        rule_name == RuleGet(rule, "name", "must_exist")
    IN  IF glob_pattern = <<>>
        THEN [raised |-> FALSE,
              issues |-> <<LintIssue("error", "must_exist rule missing 'glob' field",
                                     <<rule_name>>, <<>>)>>]
        ELSE IF ~\E p \in DOMAIN tr : GlobMatch(glob_pattern, 1, p, 1)
        THEN [raised |-> FALSE,
              issues |-> <<LintIssue("error", "No matches for glob: {glob_pattern}",
                                     <<"root">>, <<[glob |-> glob_pattern]>>)>>]
        ELSE [raised |-> FALSE, issues |-> <<>>]

\* the issues PluginRule.check builds from what the plugin returned: an
\* absent or unknown level becomes "error"
PluginIssues(levels) ==
    [k \in 1..Len(levels) |->
        LintIssue(IF levels[k] \in ValidSeverities THEN levels[k] ELSE "error",
                  "Plugin reported an issue", <<>>, <<>>)]

\* PluginRule.check(root, rule).  The module of the rule is described by
\* what importing and calling it does: imports, raises, and the levels of
\* the issues it returns.
PluginCheck(tr, rule) ==
    LET rule_name == RuleGet(rule, "name", "plugin")
    IN  IF "module" \notin DOMAIN rule
        THEN [raised |-> FALSE,
              issues |-> <<LintIssue("error", "plugin rule missing 'module' field",
                                     <<rule_name>>, <<>>)>>]
        ELSE IF ~rule.module.imports
        THEN [raised |-> FALSE,
              issues |-> <<LintIssue("error", "Failed to load plugin: {e}",
                                     <<rule_name>>, <<>>)>>]
        ELSE IF rule.module.raises
        THEN [raised |-> FALSE, issues |-> PluginIssues(<<"error">>)]
        ELSE [raised |-> FALSE, issues |-> PluginIssues(rule.module.levels)]

\* RuleEngine._dispatch
RuleTypes == {"path_pattern", "filename_regex", "frame_sequence", "must_exist",
              "plugin"}

\* a `type` that is a YAML list: truthy and unhashable
ListType == "[list]"

\* the handler of a rule type applied to the root and the rule
Dispatch(tr, rule) ==
    CASE rule.type = "path_pattern" -> PathPatternCheck(tr, rule)
      [] rule.type = "filename_regex" -> FilenameRegexCheck(tr, rule)
      [] rule.type = "frame_sequence" -> FrameSequenceCheck(tr, rule)
      [] rule.type = "must_exist" -> MustExistCheck(tr, rule)
      [] rule.type = "plugin" -> PluginCheck(tr, rule)

\* RuleEngine.execute_rule(rule): the dictionary lookup raises TypeError
\* for an unhashable type, an unknown type is a warning, and an exception
\* of the handler becomes one error issue
EngineExecuteRule(tr, rule) ==
    LET rule_name == RuleGet(rule, "name", "<unknown>")
    IN  IF rule.type = ListType
        THEN [raised |-> TRUE, issues |-> <<>>]
        ELSE IF rule.type \notin RuleTypes
        THEN [raised |-> FALSE,
              issues |-> <<LintIssue("warning", "Unknown rule type: {rule_type}",
                                     <<rule_name>>,
                                     <<[rule_type |-> rule.type]>>)>>]
        ELSE LET out == Dispatch(tr, rule)
             IN  IF out.raised
                 THEN [raised |-> FALSE,
                       issues |-> <<LintIssue("error", "Rule execution failed: {e}",
                                              <<rule_name>>, <<[rule |-> rule]>>)>>]
                 ELSE out

\* a rule that is no mapping (a plain string in the YAML list)
ScalarRule == [scalar |-> "just a string"]

IsDict(rule) == "scalar" \notin DOMAIN rule

\* ShotLintValidator._execute_rule(root, rule, result): rule.get raises
\* AttributeError on a rule that is no mapping; a rule without type is a
\* warning added with add_issue; the issues the engine returns are appended
\* to result.issues directly
ExecuteRule(tr, rule, result) ==
    IF ~IsDict(rule) THEN [raised |-> TRUE, result |-> result]
    ELSE IF RuleGet(rule, "type", "") = ""
    THEN [raised |-> FALSE,
          result |-> AddIssue(result, "warning", "Rule missing 'type' field",
                              <<RuleGet(rule, "name", "<unknown>")>>,
                              <<[rule |-> rule]>>).result]
    ELSE LET out == EngineExecuteRule(tr, rule)
         IN  IF out.raised THEN [raised |-> TRUE, result |-> result]
             ELSE [raised |-> FALSE,
                   result |-> [result EXCEPT !.issues = @ \o out.issues]]

\* the loop of validate over the rules from position k on: an exception of
\* _execute_rule becomes an error added with add_issue, unless the except
\* clause itself fails on rule.get of a rule that is no mapping
RECURSIVE ExecuteRules(_, _, _, _)
ExecuteRules(tr, rules, k, result) ==
    IF k > Len(rules) THEN [raised |-> None, result |-> result]
    ELSE LET out == ExecuteRule(tr, rules[k], result)
         IN  IF ~out.raised THEN ExecuteRules(tr, rules, k + 1, out.result)
             ELSE IF ~IsDict(rules[k])
             THEN [raised |-> "AttributeError", result |-> result]
             ELSE ExecuteRules(tr, rules, k + 1,
                      AddIssue(out.result, "error", "Rule execution failed: {e}",
                               <<RuleGet(rules[k], "name", "<unknown>")>>,
                               <<[rule |-> rules[k]]>>).result)

\* ShotLintValidator.validate(root, rules_path): root_kind is what the
\* root path is ("missing", "file" or "dir", then holding the tree tr), and
\* rules_file what the rules path holds
LintValidate(root_kind, tr, rules_file) ==
    IF root_kind # "dir"
    THEN [raised |-> "FileNotFoundError", result |-> <<>>]
    ELSE IF rules_file.kind = "missing"
    THEN [raised |-> "FileNotFoundError", result |-> <<>>]
    ELSE IF rules_file.kind # "rules"
    THEN [raised |-> "ConfigurationError", result |-> <<>>]
    ELSE LET out == ExecuteRules(tr, rules_file.rules, 1,
                        NewResult(TRUE, [validator |-> "ShotLintValidator",
                                         rule_count |-> Len(rules_file.rules)]))
         IN  IF out.raised # None THEN [raised |-> out.raised, result |-> <<>>]
             ELSE [raised |-> None, result |-> <<out.result>>]

(***************************************************************************)
(* The inputs of ShotLint: directory trees and rules                       *)
(***************************************************************************)
DirQ == <<"q", "0", "1">>

DirQT == <<"q", "0", "1", "/", "t", "0", "1">>

FileQT2 == <<"q", "0", "1", "/", "t", "0", "2">>

FileF1 == <<"q", "0", "1", "/", "t", "0", "1", "/", "f", ".", "1", ".", "e", "x", "r">>

FileF2 == <<"q", "0", "1", "/", "t", "0", "1", "/", "f", ".", "2", ".", "e", "x", "r">>

DirQQ == <<"q", "q", "0", "1">>

DirQQT == <<"q", "q", "0", "1", "/", "t", "0", "1">>

\* the paths that may be created under the root, with what they are
LintPaths ==
    {<<DirQ, "dir">>, <<DirQT, "dir">>, <<FileQT2, "file">>, <<FileF1, "file">>,
     <<FileF2, "file">>, <<DirQQ, "dir">>, <<DirQQT, "dir">>}

\* "q{n}/t{m}" with n and m two digits each: the structure the tests
\* require ("seq_{sequence}/shot_{shot}")
PatQT == <<"q", "{", "n", "}", "/", "t", "{", "m", "}">>

TwoDigitVars == (<<"n">> :> DigitsRe(2)) @@ (<<"m">> :> DigitsRe(2))

BrokenVars == (<<"n">> :> InvalidRe) @@ (<<"m">> :> DigitsRe(2))

\* the expression f\.\d\.exr, with and without a closing $
FrameFileRe(dollar) ==
    [tokens |-> <<Lit("f"), Lit("."), DigitsRe(1), Lit("."), Lit("e"), Lit("x"),
                  Lit("r")>>,
     dollar |-> dollar]

Module(imports, raises, levels) ==
    [imports |-> imports, raises |-> raises, levels |-> levels]

\* the rules a rules file may list
LintRules ==
    {[name |-> "Sequence structure", type |-> "path_pattern", pattern |-> PatQT,
      vars |-> TwoDigitVars, level |-> "error"],
     [name |-> "Sequence structure", type |-> "path_pattern", pattern |-> PatQT,
      vars |-> TwoDigitVars],
     [name |-> "Broken variable", type |-> "path_pattern", pattern |-> PatQT,
      vars |-> BrokenVars, level |-> "error"],
     [name |-> "No pattern", type |-> "path_pattern", level |-> "error"],
     [name |-> "Frame names", type |-> "filename_regex",
      regex |-> FrameFileRe(TRUE)],
     [name |-> "Broken regex", type |-> "filename_regex",
      regex |-> [tokens |-> <<InvalidRe>>, dollar |-> FALSE]],
     [name |-> "Frames", type |-> "frame_sequence", folder |-> DirQT,
      base |-> <<"f">>, start |-> 1, end |-> 2],
     [name |-> "Frames of a file", type |-> "frame_sequence", folder |-> FileQT2,
      base |-> <<"f">>, start |-> 1, end |-> 2],
     [name |-> "Frames without range", type |-> "frame_sequence",
      folder |-> DirQT, base |-> <<"f">>],
     [name |-> "Shots", type |-> "must_exist", glob |-> <<"q", "*", "/", "t", "*">>],
     [name |-> "No glob", type |-> "must_exist"],
     [name |-> "Plugin error", type |-> "plugin",
      module |-> Module(TRUE, FALSE, <<"error">>)],
     [name |-> "Plugin notes", type |-> "plugin",
      module |-> Module(TRUE, FALSE, <<"warning", "critical">>)],
     [name |-> "Plugin crash", type |-> "plugin",
      module |-> Module(TRUE, TRUE, <<>>)],
     [name |-> "Plugin absent", type |-> "plugin",
      module |-> Module(FALSE, FALSE, <<>>)],
     [name |-> "Unknown", type |-> "bogus"],
     [name |-> "No type"],
     [name |-> "List type", type |-> ListType],
     ScalarRule}

\* what the rules path may hold: nothing, text that is no YAML, YAML that
\* is no mapping, a mapping whose `rules` is no list, or a list of rules
RulesFiles ==
    {[kind |-> k, rules |-> <<>>] :
        k \in {"missing", "invalid_yaml", "not_a_dict", "rules_not_a_list"}}
    \cup {[kind |-> "rules", rules |-> rules] :
             rules \in UNION {[1..k -> LintRules] : k \in 0..MaxRules}}

(***************************************************************************)
(* ShotLint validating a directory tree that is built up and torn down     *)
(***************************************************************************)
InitLint ==
    /\ pattern = PatPrintf
    /\ InitFs
    /\ InitResult

\* a directory or a file is created under the root, inside an existing
\* directory
LintCreate ==
    /\ ret = NoRet
    /\ \E e \in LintPaths :
          /\ e[1] \notin DOMAIN tree
          /\ LastSlash(e[1]) > 0 =>
                /\ PathParent(e[1]) \in DOMAIN tree
                /\ tree[PathParent(e[1])] = "dir"
          /\ tree' = [p \in DOMAIN tree \cup {e[1]} |->
                         IF p = e[1] THEN e[2] ELSE tree[p]]
    /\ UNCHANGED <<seqVars, sessionVars>>

\* a file or an empty directory is removed
LintRemove ==
    /\ ret = NoRet
    /\ \E gone \in DOMAIN tree :
          /\ ChildrenOf(tree, gone) = {}
          /\ tree' = [p \in DOMAIN tree \ {gone} |-> tree[p]]
    /\ UNCHANGED <<seqVars, sessionVars>>

\* ShotLintValidator().validate(root, rules_path)
CallLintValidate ==
    /\ ret = NoRet
    /\ \E root_kind \in {"missing", "file", "dir"} : \E rules_file \in RulesFiles :
          \E out \in {LintValidate(root_kind, tree, rules_file)} :
             ret' = [op |-> "lint_validate", root |-> root_kind,
                     rules_file |-> rules_file,
                     raised |-> out.raised, value |-> out.result]
    /\ UNCHANGED <<pattern, base_kind, entries, vr, vr_raised, prev, registry, registered, scanning, tree, sessionVars>>

NextLint ==
    \/ LintCreate
    \/ LintRemove
    \/ CallLintValidate
    \/ TakeResult

SpecLint == InitLint /\ [][NextLint]_vars

(***************************************************************************)
(* C21  an unmatched path_pattern rule of level error fails the result     *)
(***************************************************************************)

\* the call in ret is a ShotLint validation that returned a result
LintReturned == ret.op = "lint_validate" /\ ret.raised = None

\* rule is a path_pattern rule declared with level "error" whose pattern
\* compiles and matches no directory of the tree
UnmatchedErrorPattern(rule) ==
    /\ IsDict(rule)
    /\ RuleGet(rule, "type", "") = "path_pattern"
    /\ RuleGet(rule, "level", "") = "error"
    /\ "pattern" \in DOMAIN rule
    /\ "vars" \in DOMAIN rule
    /\ LET regex_pattern == RenderPattern(rule.pattern, rule.vars, 1)
       IN  /\ ~CompileFails(regex_pattern)
           /\ ~\E dirpath \in DOMAIN tree :
                  /\ tree[dirpath] = "dir"
                  /\ ReMatch(regex_pattern, 1, dirpath, 1, TRUE)

\* C21: when validate returns for rules holding a path_pattern rule of
\* level "error" that no directory of the tree matches, the result has
\* passed = false and error_count() > 0.
UnmatchedPatternFails ==
    (LintReturned /\ \E k \in 1..Len(ret.rules_file.rules) :
                         UnmatchedErrorPattern(ret.rules_file.rules[k]))
       => /\ ~ret.value[1].passed
          /\ ErrorCount(ret.value[1]) > 0

(***************************************************************************)
(* C26  passed of a ShotLint result against its error count                *)
(***************************************************************************)

\* C26: every result ShotLintValidator.validate returns has
\* passed = (error_count() = 0).
LintPassedIffNoErrors ==
    LintReturned => (ret.value[1].passed <=> ErrorCount(ret.value[1]) = 0)

(***************************************************************************)
(* SessionManager: plugins/core/session_manager.py.  `sessions` is the     *)
(* dictionary _sessions in insertion order, `current_session` the id of    *)
(* the session _current_session refers to, `storage` the session files,    *)
(* `now` what datetime.utcnow() returns and `uuids` the number of ids      *)
(* uuid4() has handed out.                                                 *)
(***************************************************************************)
MaxHistory == 2     \* stands for _max_history = 100

MaxCreated == 3     \* sessions created in one run

MaxTime == 1        \* readings of the clock

MaxResults == 1     \* results added to one session

\* ValidationSession(session_id=..., created_at=..., results=[...]); of
\* the results only their number is kept
NewSession(session_id, created_at) ==
    [session_id |-> session_id, created_at |-> created_at, results |-> 0]

\* the keys of _sessions
SessionIds(sess) == {sess[k].session_id : k \in 1..Len(sess)}

\* _sessions[session_id]
SessionOf(sess, session_id) ==
    sess[CHOOSE k \in 1..Len(sess) : sess[k].session_id = session_id]

\* _persist_session(session): the file of the session is written anew
PersistSession(files, session) ==
    {f \in files : f.session_id # session.session_id} \cup {session}

\* the position of the k-th session in sorted(values, key=created_at,
\* reverse=True), counted from 0: the sort is stable, so sessions with
\* equal created_at keep their insertion order
RankOf(sess, k) ==
    Cardinality({j \in 1..Len(sess) :
                    \/ sess[j].created_at > sess[k].created_at
                    \/ sess[j].created_at = sess[k].created_at /\ j < k})

\* the positions of a sequence that satisfy keep, in order
RECURSIVE KeepPositions(_, _, _)
KeepPositions(sess, keep, k) ==
    IF k > Len(sess) THEN <<>>
    ELSE (IF k \in keep THEN <<sess[k]>> ELSE <<>>)
            \o KeepPositions(sess, keep, k + 1)

\* _cleanup_old_sessions(): beyond _max_history sessions only the first
\* _max_history of the sorted list stay in _sessions
CleanupOldSessions(sess) ==
    IF Len(sess) <= MaxHistory THEN sess
    ELSE KeepPositions(sess, {k \in 1..Len(sess) : RankOf(sess, k) < MaxHistory}, 1)

\* the clock advances
Tick ==
    /\ ret = NoRet
    /\ now < MaxTime
    /\ now' = now + 1
    /\ UNCHANGED <<pattern, base_kind, entries, ret, vr, vr_raised, prev, registry, registered, scanning, tree, sessions, current_session, storage, uuids>>

\* create_session(context, auto_persist)
CreateSession ==
    /\ ret = NoRet
    /\ uuids < MaxCreated
    /\ \E auto_persist \in BOOLEAN :
          \E session \in {NewSession(uuids + 1, now)} :
             /\ uuids' = uuids + 1
             /\ current_session' = <<session.session_id>>
             /\ storage' = IF auto_persist THEN PersistSession(storage, session)
                           ELSE storage
             /\ sessions' = CleanupOldSessions(Append(sessions, session))
             /\ ret' = [op |-> "create_session", auto_persist |-> auto_persist,
                        raised |-> FALSE, value |-> session.session_id]
    /\ UNCHANGED <<pattern, base_kind, entries, vr, vr_raised, prev, registry, registered, scanning, tree, now>>

\* add_result(session_id, result, auto_persist)
AddResult ==
    /\ ret = NoRet
    /\ \E session_id \in 1..MaxCreated : \E auto_persist \in BOOLEAN :
          IF session_id \notin SessionIds(sessions)
          THEN /\ ret' = [op |-> "add_result", session_id |-> session_id,
                          raised |-> TRUE, value |-> None]
               /\ UNCHANGED <<sessions, storage>>
          ELSE /\ SessionOf(sessions, session_id).results < MaxResults
               /\ sessions' = [k \in 1..Len(sessions) |->
                                  IF sessions[k].session_id = session_id
                                  THEN [sessions[k] EXCEPT !.results = @ + 1]
                                  ELSE sessions[k]]
               /\ storage' = IF auto_persist
                             THEN PersistSession(storage,
                                                 SessionOf(sessions', session_id))
                             ELSE storage
               /\ ret' = [op |-> "add_result", session_id |-> session_id,
                          raised |-> FALSE, value |-> None]
    /\ UNCHANGED <<pattern, base_kind, entries, vr, vr_raised, prev, registry, registered, scanning, tree, current_session, now, uuids>>

\* set_current_session(session_id): get_session reads the session from
\* its file, and puts it into _sessions, when it is not in memory
SetCurrentSession ==
    /\ ret = NoRet
    /\ \E session_id \in 1..MaxCreated :
          IF session_id \in SessionIds(sessions)
          THEN /\ current_session' = <<session_id>>
               /\ ret' = [op |-> "set_current_session", session_id |-> session_id,
                          raised |-> FALSE, value |-> None]
               /\ UNCHANGED sessions
          ELSE IF \E f \in storage : f.session_id = session_id
          THEN /\ sessions' = Append(sessions,
                                     CHOOSE f \in storage : f.session_id = session_id)
               /\ current_session' = <<session_id>>
               /\ ret' = [op |-> "set_current_session", session_id |-> session_id,
                          raised |-> FALSE, value |-> None]
          ELSE /\ ret' = [op |-> "set_current_session", session_id |-> session_id,
                          raised |-> TRUE, value |-> None]
               /\ UNCHANGED <<sessions, current_session>>
    /\ UNCHANGED <<pattern, base_kind, entries, vr, vr_raised, prev, registry, registered, scanning, tree, storage, now, uuids>>

\* delete_session(session_id, delete_file)
DeleteSession ==
    /\ ret = NoRet
    /\ \E session_id \in 1..MaxCreated : \E delete_file \in BOOLEAN :
          IF session_id \notin SessionIds(sessions)
          THEN /\ ret' = [op |-> "delete_session", session_id |-> session_id,
                          raised |-> FALSE, value |-> FALSE]
               /\ UNCHANGED <<sessions, current_session, storage>>
          ELSE /\ sessions' = KeepPositions(sessions,
                                  {k \in 1..Len(sessions) :
                                      sessions[k].session_id # session_id}, 1)
               /\ current_session' = IF current_session = <<session_id>> THEN <<>>
                                     ELSE current_session
               /\ storage' = IF delete_file
                             THEN {f \in storage : f.session_id # session_id}
                             ELSE storage
               /\ ret' = [op |-> "delete_session", session_id |-> session_id,
                          raised |-> FALSE, value |-> TRUE]
    /\ UNCHANGED <<pattern, base_kind, entries, vr, vr_raised, prev, registry, registered, scanning, tree, now, uuids>>

\* clear_sessions(delete_files)
ClearSessions ==
    /\ ret = NoRet
    /\ \E delete_files \in BOOLEAN :
          /\ storage' = IF delete_files THEN {} ELSE storage
          /\ sessions' = <<>>
          /\ current_session' = <<>>
          /\ ret' = [op |-> "clear_sessions", delete_files |-> delete_files,
                     raised |-> FALSE, value |-> None]
    /\ UNCHANGED <<pattern, base_kind, entries, vr, vr_raised, prev, registry, registered, scanning, tree, now, uuids>>

\* SessionManager(storage_path) on an empty storage directory
InitSessionManager ==
    /\ pattern = PatPrintf
    /\ InitFs
    /\ InitResult

NextSessions ==
    \/ Tick
    \/ CreateSession
    \/ AddResult
    \/ SetCurrentSession
    \/ DeleteSession
    \/ ClearSessions
    \/ TakeResult

SpecSessions == InitSessionManager /\ [][NextSessions]_vars

(***************************************************************************)
(* C30  the current session is held in the session map                     *)
(***************************************************************************)

\* C30: the current session is None or a session of the in-memory map, and
\* the session create_session returned is in the map right after the call.
CurrentSessionHeld ==
    /\ current_session # <<>> => current_session[1] \in SessionIds(sessions)
    /\ (ret.op = "create_session") => ret.value \in SessionIds(sessions)

====
